---------------------------- MODULE Spec2Model ----------------------------
(***************************************************************************)
(* CloneGallery: the authentication core (registration, login, password   *)
(* hashing, JWT issue/verify, current-user lookup) of the server           *)
(* entrypoints main.py, main_enhanced.py, main_auth_only.py and            *)
(* main_simple.py, and the image handlers of main_enhanced.py.             *)
(*                                                                         *)
(* The entrypoints are alternative servers over the same SQLite file       *)
(* clonegallery.db; an action takes the entrypoint as its parameter v.     *)
(* A handler is an `async def` without an await between its database       *)
(* statements, so one request is one atomic action, except in SpecReg and *)
(* SpecView, which interleave the statements of requests served by several *)
(* worker processes, and in SpecUpload, which follows one upload through   *)
(* its statements and commits.                                             *)
(***************************************************************************)
EXTENDS Integers, Sequences, FiniteSets, TLC

VARIABLES
    users,      \* the rows of table users (a set of records)
    next_id,    \* how many ids uuid4 has handed out (ids are never reused)
    clock,      \* the wall clock, in seconds
    issued,     \* the tokens handed to clients, each with its issue time
    resp,       \* the response of the request served last (Idle: none)
    reg,        \* the requests served statement by statement, one slot per worker
    images,     \* the rows of table images, as the shared connection sees them
    next_img,   \* how many image ids uuid4 has handed out
    tags,       \* SpecUpload: the rows of table tags, as the connection sees them
    image_tags, \* SpecUpload: the rows of table image_tags, as the connection sees them
    committed,  \* SpecUpload: the tables as of the last commit
    storage,    \* SpecStore, SpecOrphan: the StorageService and the objects it holds
    ai,         \* SpecGen: the AI provider configuration and the prediction polled
    migrations  \* SpecMig: the migrator, its table of applied versions and its run

vars == <<users, next_id, clock, issued, resp, reg, images, next_img, tags, image_tags,
          committed, storage, ai, migrations>>

(***************************************************************************)
(* Bounds of the model                                                     *)
(***************************************************************************)
MaxUsers == 1
MaxIssueTime == 1
MaxProcs == 2
MaxImages == 2
MaxViews == 1
MaxTokens == 1

(***************************************************************************)
(* Program constants                                                       *)
(***************************************************************************)
JWT_SECRET == "your-secret-key-change-in-production"
JWT_EXPIRATION_HOURS == 24
SecondsPerHour == 3600

None == "None"

Roles == {"Admin", "Editor", "Visitor"}
VISITOR == "Visitor"

\* The entrypoints.
Variants == {"enhanced", "main", "auth_only", "simple"}

\* Optional[x]: <<>> is None, <<x>> is the value x.
Some(x) == <<x>>
Nothing == <<>>

(***************************************************************************)
(* Password Hasher: passlib's bcrypt context.  The digest embeds its salt; *)
(* bcrypt is modelled as an ideal one-way function of (salt, plaintext).   *)
(***************************************************************************)
pwd_hash(password, salt) ==
    [scheme |-> "bcrypt", salt |-> salt, digest |-> <<salt, password>>]

pwd_verify(password, hashed) ==
    hashed = pwd_hash(password, hashed.salt)

(***************************************************************************)
(* Token Service: PyJWT HS256.  A token is its payload and a signature;    *)
(* the signature is an ideal MAC of (payload, key).  A payload carries     *)
(* the keys the entrypoint sets; a key it does not set reads as None.      *)
(***************************************************************************)
HS256(payload, key) == [payload |-> payload, key |-> key]

jwt_encode(payload, key) ==
    [kind |-> "jwt", payload |-> payload, sig |-> HS256(payload, key)]

Payload(sub, user_id, role, exp) ==
    [sub |-> sub, user_id |-> user_id, role |-> role, exp |-> exp]

\* A bearer string that is no JWT at all.
Garbage ==
    [kind |-> "garbage", payload |-> Payload(None, None, None, 0),
     sig |-> HS256(Payload(None, None, None, 0), "none")]

\* A decoder that does not look at the exp claim.
jwt_decode_noexp(token, key, now) ==
    IF token.kind # "jwt" THEN [ok |-> FALSE, err |-> "DecodeError", payload |-> token.payload]
    ELSE IF token.sig # HS256(token.payload, key)
         THEN [ok |-> FALSE, err |-> "InvalidSignatureError", payload |-> token.payload]
    ELSE [ok |-> TRUE, err |-> "", payload |-> token.payload]

\* jwt.decode: the signature first, then the exp claim (expired when exp <= now).
jwt_decode(token, key, now) ==
    IF token.kind # "jwt" THEN [ok |-> FALSE, err |-> "DecodeError", payload |-> token.payload]
    ELSE IF token.sig # HS256(token.payload, key)
         THEN [ok |-> FALSE, err |-> "InvalidSignatureError", payload |-> token.payload]
    ELSE IF token.payload.exp <= now
         THEN [ok |-> FALSE, err |-> "ExpiredSignatureError", payload |-> token.payload]
    ELSE [ok |-> TRUE, err |-> "", payload |-> token.payload]

TTL == JWT_EXPIRATION_HOURS * SecondsPerHour

\* datetime.timezone(offset): the offset must lie strictly between -24h and 24h.
timezone(offset_hours) ==
    IF offset_hours > -24 /\ offset_hours < 24
    THEN [ok |-> TRUE, type |-> "timezone", err |-> ""]
    ELSE [ok |-> FALSE, type |-> "", err |-> "ValueError"]

\* datetime + x: defined for a timedelta only.
datetime_add(now, x) ==
    IF ~x.ok THEN [ok |-> FALSE, err |-> x.err, value |-> 0]
    ELSE IF x.type = "timedelta" THEN [ok |-> TRUE, err |-> "", value |-> now + x.seconds]
    ELSE [ok |-> FALSE, err |-> "TypeError", value |-> 0]

timedelta(hours) ==
    [ok |-> TRUE, type |-> "timedelta", err |-> "", seconds |-> hours * SecondsPerHour]

\* create_access_token of each entrypoint: [ok, err, token].
create_access_token(v, user, now) ==
    CASE v \in {"enhanced", "simple"} ->
           [ok |-> TRUE, err |-> "",
            token |-> jwt_encode(Payload(None, user.id, user.role,
                                         now + JWT_EXPIRATION_HOURS * SecondsPerHour),
                                 JWT_SECRET)]
      [] v = "main" ->
           LET expire == datetime_add(now, timedelta(JWT_EXPIRATION_HOURS))
           IN  [ok |-> TRUE, err |-> "",
                token |-> jwt_encode(Payload(user.id, None, None, expire.value), JWT_SECRET)]
      [] v = "auth_only" ->
           LET expire == datetime_add(now, timezone(JWT_EXPIRATION_HOURS))
           IN  IF expire.ok
               THEN [ok |-> TRUE, err |-> "",
                     token |-> jwt_encode(Payload(user.id, None, user.role, expire.value),
                                          JWT_SECRET)]
               ELSE [ok |-> FALSE, err |-> expire.err, token |-> Garbage]

\* verify_token (main_enhanced, main_simple): the payload, or None.
verify_token(token, now) ==
    LET d == jwt_decode(token, JWT_SECRET, now)
    IN  IF d.ok THEN Some(d.payload) ELSE Nothing


(***************************************************************************)
(* Credential Store: table users                                           *)
(***************************************************************************)
UserIds == <<"u1", "u2", "u3", "u4">>

Emails == {"a@x.io", "bob@example.com"}
Usernames == {"ann", "bob"}
Names == {"Ann", "Bob"}
\* "pw1" and "pw2" stand for two passwords of at least 8 characters, "short"
\* for one of 5.
Passwords == {"pw1", "pw2"}
ShortPassword == "short"
PasswordLength(p) == IF p = ShortPassword THEN 5 ELSE 8

\* password: str = Field(..., min_length=8)
MinPasswordLength == 8

\* f"{user.username}@example.com"
DefaultEmail(username) == IF username = "bob" THEN "bob@example.com" ELSE "ann@example.com"

\* The columns of a users row that the model keeps.
UserColumns ==
    {"id", "email", "username", "password_hash", "name", "role", "is_active",
     "last_login", "uploads"}

\* The row an INSERT INTO users writes: is_active defaults to 1, last_login to NULL,
\* uploads to 0; the salt is fresh for every hash, as the id is.
NewUserRow(id, email, username, password, name, role) ==
    [id |-> id, email |-> email, username |-> username,
     password_hash |-> pwd_hash(password, id), name |-> name, role |-> role,
     is_active |-> TRUE, last_login |-> Nothing, uploads |-> 0]

\* A users table without constraints.
UniqueViolation_none(row, tbl) == FALSE

\* username TEXT UNIQUE NOT NULL, email TEXT UNIQUE NOT NULL, id TEXT PRIMARY KEY:
\* the INSERT of row into tbl raises IntegrityError.
UniqueViolation(row, tbl) ==
    \E u \in tbl : u.id = row.id \/ u.email = row.email \/ u.username = row.username

\* dict(row) of a SELECT of the columns cols.
Select(row, cols) == [c \in cols |-> row[c]]

\* The request body of a registration.  main.py makes name and email optional.
\* role defaults to Visitor in every entrypoint.
RegData ==
    [email : Emails \cup {None}, username : Usernames,
     password : Passwords \cup {ShortPassword},
     name : Names \cup {None}, role : Roles \cup {None}]

\* The UserCreate model accepts the body; FastAPI answers 422 otherwise.
ValidRegData(v, d) ==
    /\ v \in {"enhanced", "auth_only", "simple"} => d.email # None /\ d.name # None
    /\ PasswordLength(d.password) >= MinPasswordLength

\* role: UserRole = Field(default=UserRole.VISITOR)
EffRole(d) == IF d.role = None THEN VISITOR ELSE d.role

EffEmail(v, d) == IF v = "main" /\ d.email = None THEN DefaultEmail(d.username) ELSE d.email
EffName(v, d) == IF v = "main" /\ d.name = None THEN d.username ELSE d.name

\* The existence checks before the INSERT: the detail of the 400, or "" to go on.
reg_check_email(v, d, tbl) ==
    CASE v \in {"enhanced", "simple"} ->
           IF \E u \in tbl : u.email = d.email THEN "User already exists" ELSE ""
      [] v = "main" ->
           IF d.email # None /\ \E u \in tbl : u.email = EffEmail(v, d)
           THEN "Email already registered" ELSE ""
      [] v = "auth_only" ->
           IF \E u \in tbl : u.email = d.email \/ u.username = d.username
           THEN "User with this email or username already exists" ELSE ""

reg_check_username(v, d, tbl) ==
    IF v = "main" /\ \E u \in tbl : u.username = d.username
    THEN "Username already taken" ELSE ""

\* The detail of the 500 an IntegrityError of the INSERT ends in.
InsertErrorDetail(v) ==
    CASE v = "enhanced" -> "Database operation failed"
      [] v = "auth_only" -> "Database error"
      [] OTHER -> "Internal Server Error"

\* UserResponse(**user): the declared fields, extra keys dropped.
UserResponseFields(v) ==
    IF v \in {"enhanced", "simple"}
    THEN {"id", "email", "username", "name", "role", "is_active", "last_login", "uploads"}
    ELSE {"id", "name", "username", "email", "role", "is_active"}

UserResponse(v, user) == Select(user, UserResponseFields(v))

\* get_user_by_id: the row without its password_hash, or None.
get_user_by_id_any(user_id, tbl) ==
    IF tbl # {}
    THEN Some(Select(CHOOSE u \in tbl : TRUE, UserColumns \ {"password_hash"}))
    ELSE Nothing

get_user_by_id(user_id, tbl) ==
    IF \E u \in tbl : u.id = user_id
    THEN Some(Select(CHOOSE u \in tbl : u.id = user_id, UserColumns \ {"password_hash"}))
    ELSE Nothing

Idle ==
    [op |-> "idle", v |-> None, status |-> 0, detail |-> "", req |-> Nothing,
     body |-> Nothing, handed |-> Nothing, token |-> Nothing]

Response(op, v, req, status, detail, body, handed, token) ==
    [op |-> op, v |-> v, status |-> status, detail |-> detail, req |-> Some(req),
     body |-> body, handed |-> handed, token |-> token]

\* What a successful registration answers, and the token it hands out (main.py).
RegisterOk(v, d, row, now) ==
    LET tok == create_access_token(v, row, now)
    IN  Response("register", v, d, 200, "",
                 Some(UserResponse(v, row)),
                 CASE v \in {"enhanced", "simple"} -> get_user_by_id(row.id, {row})
                   [] v = "auth_only" -> Some(Select(row, UserResponseFields(v)))
                   [] OTHER -> Nothing,
                 IF v = "main" THEN Some(tok.token) ELSE Nothing)

(***************************************************************************)
(* POST /auth/register, one request served without interleaving.           *)
(***************************************************************************)
Register(v, d) ==
    /\ LET e1 == reg_check_email(v, d, users)
           e2 == reg_check_username(v, d, users)
           row == NewUserRow(UserIds[next_id + 1], EffEmail(v, d), d.username,
                             d.password, EffName(v, d), EffRole(d))
       IN  IF ~ValidRegData(v, d)
           THEN /\ resp' = Response("register", v, d, 422, "Unprocessable Entity",
                                    Nothing, Nothing, Nothing)
                /\ UNCHANGED <<users, next_id, issued>>
           ELSE IF e1 # "" \/ e2 # ""
           THEN /\ resp' = Response("register", v, d, 400, IF e1 # "" THEN e1 ELSE e2,
                                    Nothing, Nothing, Nothing)
                /\ UNCHANGED <<users, next_id, issued>>
           ELSE IF UniqueViolation(row, users)
           THEN /\ resp' = Response("register", v, d, 500, InsertErrorDetail(v),
                                    Nothing, Nothing, Nothing)
                /\ UNCHANGED <<users, next_id, issued>>
           ELSE /\ next_id < MaxUsers
                /\ v = "main" =>
                        Cardinality(issued \cup {[token |-> create_access_token(v, row, clock).token,
                                                   at |-> clock]}) <= MaxTokens
                /\ users' = users \cup {row}
                /\ next_id' = next_id + 1
                /\ resp' = RegisterOk(v, d, row, clock)
                /\ issued' = IF v = "main"
                             THEN issued \cup {[token |-> create_access_token(v, row, clock).token,
                                                at |-> clock]}
                             ELSE issued
    /\ UNCHANGED <<clock, reg, images, next_img, tags, image_tags, committed,
                   storage, ai, migrations>>


(***************************************************************************)
(* POST /auth/login                                                        *)
(***************************************************************************)
Idents == Emails \cup Usernames

\* The people who register in Spec, each with one email, username, name and password.
People ==
    {[email |-> "a@x.io", username |-> "ann", name |-> "Ann", password |-> "pw1"],
     [email |-> "bob@example.com", username |-> "bob", name |-> "Bob", password |-> "pw2"]}

PeopleRegData ==
    {[email |-> p.email, username |-> p.username, password |-> p.password,
      name |-> p.name, role |-> r] : p \in People, r \in Roles}

\* The rows the login's SELECT matches.
LoginMatches(v, ident, tbl) ==
    IF v = "main"
    THEN {u \in tbl : u.username = ident \/ u.email = ident}
    ELSE {u \in tbl : u.email = ident /\ u.is_active}

\* What authenticate_user hands back for the matched row u: main_enhanced and
\* main_simple return dict(user) of their SELECT, main_auth_only a dict it builds.
AuthColumns(v) ==
    IF v \in {"enhanced", "simple"} THEN UserColumns ELSE UserResponseFields(v)

LoginFailDetail(v) ==
    IF v = "main" THEN "Incorrect username or password" ELSE "Invalid credentials"

\* A rejection that tells an unknown identifier from a wrong password.
LoginReject_user_not_found(v, matched) ==
    IF matched THEN [status |-> 401, detail |-> LoginFailDetail(v)]
    ELSE [status |-> 404, detail |-> "User not found"]

\* What a login without valid credentials raises; matched tells whether the
\* SELECT found a row.  authenticate_user returns None in both cases and main.py
\* tests "not user or not verify_password(...)" in one condition.
LoginReject(v, matched) == [status |-> 401, detail |-> LoginFailDetail(v)]

Login(v, ident, password) ==
    /\ LET m == LoginMatches(v, ident, users)
           req == [ident |-> ident, password |-> password]
       IN  IF m = {}
           THEN /\ resp' = Response("login", v, req, LoginReject(v, FALSE).status,
                                    LoginReject(v, FALSE).detail, Nothing, Nothing, Nothing)
                /\ UNCHANGED <<users, issued>>
           ELSE \E u \in m :
                  IF ~pwd_verify(password, u.password_hash)
                  THEN /\ resp' = Response("login", v, req, LoginReject(v, TRUE).status,
                                           LoginReject(v, TRUE).detail, Nothing, Nothing, Nothing)
                       /\ UNCHANGED <<users, issued>>
                  ELSE LET tok == create_access_token(v, u, clock)
                           handed == IF v = "main" THEN Nothing
                                     ELSE Some(Select(u, AuthColumns(v)))
                       IN  /\ users' = IF v \in {"enhanced", "simple"}
                                       THEN (users \ {u}) \cup
                                            {[u EXCEPT !.last_login = Some(clock)]}
                                       ELSE users
                           /\ IF tok.ok
                              THEN /\ Cardinality(issued \cup {[token |-> tok.token, at |-> clock]})
                                        <= MaxTokens
                                   /\ resp' = Response("login", v, req, 200, "",
                                                       Some(UserResponse(v, u)), handed,
                                                       Some(tok.token))
                                   /\ issued' = issued \cup
                                                {[token |-> tok.token, at |-> clock]}
                              ELSE /\ resp' = Response("login", v, req, 500, "Login failed",
                                                       Nothing, handed, Nothing)
                                   /\ UNCHANGED issued
    /\ UNCHANGED <<next_id, clock, reg, images, next_img, tags, image_tags, committed,
                   storage, ai, migrations>>

(***************************************************************************)
(* Authenticated requests                                                  *)
(***************************************************************************)
\* What a client can put in the Authorization header: a token it was issued, that
\* token re-signed with a key of its own, that token with its payload altered
\* under the old signature, or a string that is no JWT.
Forged(t) ==
    {jwt_encode(t.payload, "attacker-key"),
     [t EXCEPT !.payload.role = "Admin", !.payload.exp = @ + TTL]}

Bearers ==
    {Garbage} \cup {i.token : i \in issued} \cup UNION {Forged(i.token) : i \in issued}

\* What FastAPI injects as get_current_user's parameter: the result of
\* Depends(lambda: None) in main_enhanced and main_simple, the credentials
\* HTTPBearer took from the header in main.py.
TokenDependency(v, header) ==
    IF v \in {"enhanced", "simple"} THEN Nothing ELSE header

\* get_current_user of main_enhanced and main_simple: the user, or None.
get_current_user_enhanced(token, tbl, now) ==
    IF token = Nothing THEN Nothing
    ELSE LET payload == verify_token(token[1], now)
         IN  IF payload = Nothing THEN Nothing
             ELSE get_user_by_id(payload[1].user_id, tbl)

\* get_current_user of main.py: [status, detail, user].
get_current_user_main(token, tbl, now) ==
    LET d == jwt_decode(token[1], JWT_SECRET, now)
        bad == [status |-> 401, detail |-> "Invalid authentication credentials",
                user |-> Nothing]
    IN  IF ~d.ok THEN bad
        ELSE IF d.payload.sub = None THEN bad
        ELSE IF ~\E u \in tbl : u.id = d.payload.sub
             THEN [status |-> 401, detail |-> "User not found", user |-> Nothing]
        ELSE [status |-> 200, detail |-> "",
              user |-> Some(Select(CHOOSE u \in tbl : u.id = d.payload.sub, UserColumns))]

\* GET /auth/me with the Authorization header `header` (Nothing: no header).
\* main.py's HTTPBearer answers a request without a header itself, before
\* get_current_user runs; main_auth_only's endpoint is a placeholder.
AuthMe(v, header) ==
    /\ v = "main" => header # Nothing
    /\ LET token == TokenDependency(v, header)
           req == [header |-> header]
       IN  CASE v \in {"enhanced", "simple"} ->
                  LET cu == get_current_user_enhanced(token, users, clock)
                  IN  resp' = IF cu = Nothing
                              THEN Response("me", v, req, 401, "Not authenticated",
                                            Nothing, cu, Nothing)
                              ELSE Response("me", v, req, 200, "",
                                            Some(UserResponse(v, cu[1])), cu, Nothing)
             [] v = "main" ->
                  LET cu == get_current_user_main(token, users, clock)
                  IN  resp' = IF cu.status # 200
                              THEN Response("me", v, req, cu.status, cu.detail,
                                            Nothing, Nothing, Nothing)
                              ELSE Response("me", v, req, 200, "",
                                            Some(UserResponse(v, cu.user[1])), cu.user, Nothing)
             [] v = "auth_only" ->
                  resp' = Response("me", v, req, 501, "Not implemented",
                                   Nothing, Nothing, Nothing)
    /\ UNCHANGED <<users, next_id, clock, issued, reg, images, next_img, tags, image_tags, committed,
                   storage, ai, migrations>>

\* verify_token applied to a bearer string (main_enhanced, main_simple).
VerifyToken(t) ==
    /\ resp' = Response("verify", "enhanced", [header |-> Some(t)], 0, "",
                        verify_token(t, clock), Nothing, Nothing)
    /\ UNCHANGED <<users, next_id, clock, issued, reg, images, next_img, tags, image_tags, committed,
                   storage, ai, migrations>>

(***************************************************************************)
(* The environment: time passes; an administrator deactivates or deletes   *)
(* a user directly in the database.                                        *)
(***************************************************************************)
ClockGrid == (0 .. MaxIssueTime) \cup {TTL + k : k \in -1 .. (MaxIssueTime + 1)}

Tick ==
    /\ \E t \in ClockGrid : t > clock /\ clock' = t
    /\ resp' = Idle
    /\ UNCHANGED <<users, next_id, issued, reg, images, next_img, tags, image_tags, committed,
                   storage, ai, migrations>>

DeactivateUser(id) ==
    /\ \E u \in users : /\ u.id = id
                        /\ u.is_active
                        /\ users' = (users \ {u}) \cup {[u EXCEPT !.is_active = FALSE]}
    /\ resp' = Idle
    /\ UNCHANGED <<next_id, clock, issued, reg, images, next_img, tags, image_tags, committed,
                   storage, ai, migrations>>

DeleteUser(id) ==
    /\ \E u \in users : u.id = id /\ users' = users \ {u}
    /\ resp' = Idle
    /\ UNCHANGED <<next_id, clock, issued, reg, images, next_img, tags, image_tags, committed,
                   storage, ai, migrations>>

(***************************************************************************)
(* Spec: the authentication flows over an initially empty users table.     *)
(***************************************************************************)
\* The requests that are served statement by statement, one slot per server
\* worker: registrations in SpecReg, image reads in SpecView.
Procs == 1 .. MaxProcs

NoReg ==
    [p \in Procs |-> [pc |-> "idle", v |-> None, d |-> Nothing, status |-> 0,
                      detail |-> "", id |-> None]]

Init ==
    /\ users = {}
    /\ next_id = 0
    /\ clock = 0
    /\ issued = {}
    /\ resp = Idle
    /\ reg = NoReg
    /\ images = {}
    /\ next_img = 0
    /\ tags = {}
    /\ image_tags = {}
    /\ committed = Nothing
    /\ storage = Nothing
    /\ ai = Nothing
    /\ migrations = Nothing

Next ==
    \/ \E v \in Variants \ {"simple"}, d \in PeopleRegData : Register(v, d)
    \/ \E v \in Variants \ {"simple"}, i \in Idents, p \in Passwords : Login(v, i, p)
    \/ \E v \in Variants, t \in Bearers : AuthMe(v, Some(t))
    \/ \E v \in Variants : AuthMe(v, Nothing)
    \/ \E t \in Bearers : VerifyToken(t)
    \/ \E id \in {u.id : u \in users} : DeactivateUser(id)
    \/ \E id \in {u.id : u \in users} : DeleteUser(id)

Spec == Init /\ [][Next]_vars


(***************************************************************************)
(* Claims checked under Spec                                               *)
(***************************************************************************)
\* The identity a token payload names: "sub" (main.py, main_auth_only) or "user_id".
TokenUser(payload) == IF payload.sub # None THEN payload.sub ELSE payload.user_id

\* The stored active user a login identifier names by email.
LoginTarget(ident) == {u \in users : u.email = ident /\ u.is_active}

\* C4: after a user has registered with password p, a login with that user's
\* identifier and p answers 200 with a token and that user's record, and a login
\* with another password answers 401 (InvalidCredentials).
C4_LoginRoundTrip ==
    resp.op = "login" =>
        \A u \in LoginTarget(resp.req[1].ident) :
            IF u.password_hash = pwd_hash(resp.req[1].password, u.password_hash.salt)
            THEN /\ resp.status = 200
                 /\ resp.token # Nothing
                 /\ resp.body # Nothing
                 /\ resp.body[1].id = u.id
            ELSE resp.status = 401

\* C5: a request with a correctly signed, unexpired token whose user has been
\* deleted or deactivated since is rejected as unauthenticated.
C5_RejectsDeletedOrDeactivated ==
    (/\ resp.op = "me"
     /\ resp.v \in {"enhanced", "main", "simple"}
     /\ resp.req[1].header # Nothing
     /\ jwt_decode(resp.req[1].header[1], JWT_SECRET, clock).ok
     /\ ~\E u \in users : /\ u.id = TokenUser(resp.req[1].header[1].payload)
                          /\ u.is_active)
    => resp.status = 401

\* The entrypoint whose login issued the token t.
IssuedBy(v, t) ==
    /\ \E i \in issued : i.token = t
    /\ IF v = "main" THEN t.payload.sub # None /\ t.payload.role = None
       ELSE t.payload.user_id # None

\* C7: a request to a protected endpoint that carries the token a successful
\* login of an existing user just returned is authenticated as that user; it is
\* not rejected as unauthenticated.
C7_LoginTokenAuthenticates ==
    (/\ resp.op = "me"
     /\ resp.v \in {"enhanced", "main", "simple"}
     /\ resp.req[1].header # Nothing
     /\ IssuedBy(resp.v, resp.req[1].header[1])
     /\ \E u \in users : /\ u.id = TokenUser(resp.req[1].header[1].payload)
                         /\ u.is_active)
    => /\ resp.status = 200
       /\ resp.body[1].id = TokenUser(resp.req[1].header[1].payload)

\* C8: verifying a token right after register or login issued it for (u, r)
\* yields the identity u and the role r.
C8_TokenRoundTrip ==
    (resp.op \in {"login", "register"} /\ resp.token # Nothing) =>
        LET d == jwt_decode(resp.token[1], JWT_SECRET, clock)
        IN  /\ d.ok
            /\ TokenUser(d.payload) = resp.body[1].id
            /\ d.payload.role = resp.body[1].role

\* C10: neither the value the Credential Store hands back to a handler nor a
\* response of register, login or current-user lookup carries password_hash.
C10_NoPasswordHashReturned ==
    /\ resp.handed # Nothing => "password_hash" \notin DOMAIN resp.handed[1]
    /\ (resp.op \in {"login", "register", "me"} /\ resp.body # Nothing)
           => "password_hash" \notin DOMAIN resp.body[1]


(***************************************************************************)
(* SpecToken: tokens over time.  The database holds the sample users of    *)
(* database/init.py; the administrator logs in while the clock advances.   *)
(***************************************************************************)
SampleUser(id, email, username, password, name, role, uploads) ==
    [NewUserRow(id, email, username, password, name, role) EXCEPT !.uploads = uploads]

SampleUsers ==
    {SampleUser("admin-001", "admin@clonegallery.local", "admin", "admin123",
                "Gallery Admin", "Admin", 45),
     SampleUser("editor-001", "editor@clonegallery.local", "editor", "editor123",
                "Creative Editor", "Editor", 28),
     SampleUser("visitor-001", "user@clonegallery.local", "visitor", "user123",
                "Gallery Visitor", "Visitor", 0)}

TokenLoginIdents == {"admin@clonegallery.local"}
TokenLoginPasswords == {"admin123", "letmein"}

InitToken ==
    /\ users = SampleUsers
    /\ next_id = 0
    /\ clock = 0
    /\ issued = {}
    /\ resp = Idle
    /\ reg = NoReg
    /\ images = {}
    /\ next_img = 0
    /\ tags = {}
    /\ image_tags = {}
    /\ committed = Nothing
    /\ storage = Nothing
    /\ ai = Nothing
    /\ migrations = Nothing

NextToken ==
    \/ \E v \in Variants \ {"simple"}, i \in TokenLoginIdents, p \in TokenLoginPasswords :
          Login(v, i, p)
    \/ \E v \in Variants, t \in Bearers : AuthMe(v, Some(t))
    \/ \E v \in Variants : AuthMe(v, Nothing)
    \/ \E t \in Bearers : VerifyToken(t)
    \/ Tick

SpecToken == InitToken /\ [][NextToken]_vars

\* A header that carries no token, a malformed one, one with a wrong signature,
\* or one whose expiry has passed.
InvalidHeader(header, now) ==
    \/ header = Nothing
    \/ header[1].kind # "jwt"
    \/ header[1].sig # HS256(header[1].payload, JWT_SECRET)
    \/ header[1].payload.exp < now

UnauthDetail(v) ==
    IF v = "main" THEN "Invalid authentication credentials" ELSE "Not authenticated"

C9_ExpiryIsIssuePlus24h ==
    /\ (resp.op = "login" /\ resp.status # 401) =>
         /\ resp.token # Nothing
         /\ resp.token[1].payload.exp = clock + 24 * 3600
    /\ \A i \in issued :
         /\ i.token.payload.exp = i.at + 24 * 3600
         /\ clock < i.at + 24 * 3600 => verify_token(i.token, clock) # Nothing
         /\ clock > i.at + 24 * 3600 => verify_token(i.token, clock) = Nothing

(***************************************************************************)
(* SpecReg: POST /auth/register served by concurrent workers.  A request   *)
(* is a sequence of statements on the shared database: the existence       *)
(* SELECTs, then the INSERT with its commit.  Statements of different      *)
(* requests interleave freely; each statement is atomic in the database.   *)
(***************************************************************************)
RegInputs ==
    {d \in RegData : d.password = "pw1" /\ d.name = "Ann" /\ d.role = VISITOR}

RegDone(p, status, detail, id) ==
    reg' = [reg EXCEPT ![p] = [@ EXCEPT !.pc = "done", !.status = status,
                                        !.detail = detail, !.id = id]]

\* The request arrives and is validated.
RegStart(p, v, d) ==
    /\ reg[p].pc = "idle"
    /\ ValidRegData(v, d)
    /\ reg' = [reg EXCEPT ![p] = [@ EXCEPT !.pc = "check_email", !.v = v, !.d = Some(d)]]
    /\ UNCHANGED <<users, next_id, clock, issued, resp, images, next_img, tags, image_tags, committed,
                   storage, ai, migrations>>

\* SELECT id FROM users WHERE email = ? (main_auth_only: OR username = ?).
RegCheckEmail(p) ==
    /\ reg[p].pc = "check_email"
    /\ LET v == reg[p].v
           d == reg[p].d[1]
           e == reg_check_email(v, d, users)
       IN  IF e # ""
           THEN RegDone(p, 400, e, None)
           ELSE reg' = [reg EXCEPT ![p].pc = IF v = "main" THEN "check_username"
                                                            ELSE "insert"]
    /\ UNCHANGED <<users, next_id, clock, issued, resp, images, next_img, tags, image_tags, committed,
                   storage, ai, migrations>>

\* SELECT id FROM users WHERE username = ? (main.py only).
RegCheckUsername(p) ==
    /\ reg[p].pc = "check_username"
    /\ LET e == reg_check_username(reg[p].v, reg[p].d[1], users)
       IN  IF e # ""
           THEN RegDone(p, 400, e, None)
           ELSE reg' = [reg EXCEPT ![p].pc = "insert"]
    /\ UNCHANGED <<users, next_id, clock, issued, resp, images, next_img, tags, image_tags, committed,
                   storage, ai, migrations>>

\* INSERT INTO users ...; commit.  The row's id is a fresh uuid4.
RegInsert(p) ==
    /\ reg[p].pc = "insert"
    /\ LET v == reg[p].v
           d == reg[p].d[1]
           row == NewUserRow(UserIds[next_id + 1], EffEmail(v, d), d.username,
                             d.password, EffName(v, d), EffRole(d))
       IN  IF UniqueViolation(row, users)
           THEN /\ RegDone(p, 500, InsertErrorDetail(v), None)
                /\ UNCHANGED <<users, next_id>>
           ELSE /\ users' = users \cup {row}
                /\ next_id' = next_id + 1
                /\ RegDone(p, 200, "", row.id)
    /\ UNCHANGED <<clock, issued, resp, images, next_img, tags, image_tags, committed,
                   storage, ai, migrations>>

NextReg ==
    \/ \E p \in Procs, v \in Variants \ {"simple"}, d \in RegInputs : RegStart(p, v, d)
    \/ \E p \in Procs : RegCheckEmail(p)
    \/ \E p \in Procs : RegCheckUsername(p)
    \/ \E p \in Procs : RegInsert(p)

SpecReg == Init /\ [][NextReg]_vars

\* Two registration attempts share an email or share a username.
RegShare(p, q) ==
    \/ EffEmail(reg[p].v, reg[p].d[1]) = EffEmail(reg[q].v, reg[q].d[1])
    \/ reg[p].d[1].username = reg[q].d[1].username

\* C3: of two registration attempts that share an email or a username at most
\* one creates a user, whatever the interleaving of their checks and inserts,
\* and no two stored users ever have the same email or the same username.
C3_RegistrationUniqueness ==
    /\ \A p, q \in Procs :
         (/\ p # q
          /\ reg[p].pc = "done" /\ reg[p].status = 200
          /\ reg[q].pc = "done" /\ reg[q].status = 200)
         => ~RegShare(p, q)
    /\ \A u1, u2 \in users :
         u1 # u2 => (u1.email # u2.email /\ u1.username # u2.username)

\* C3 witness: two attempts with the same email both passed their existence
\* check; one created the user and the other's INSERT was refused.
C3_Witness ==
    \E p, q \in Procs :
        /\ reg[p].pc = "done" /\ reg[p].status = 200
        /\ reg[q].pc = "done" /\ reg[q].status = 500
        /\ RegShare(p, q)
        /\ Cardinality(users) = 1


(***************************************************************************)
(* Images (main_enhanced.py).  The handlers are modelled from the point    *)
(* where FastAPI has resolved their dependencies: current_user is the      *)
(* value get_current_user returned, None or a user of get_user_by_id.      *)
(***************************************************************************)
PrivacyLevel == {"public", "private"}

\* The values of the ImageFormat enum.
ImageFormat == {"JPEG", "PNG", "GIF", "WebP", "AVIF", "TIFF"}

ContentTypes == {"image/jpeg", "image/webp", "text/plain"}

\* The content types uploaded in SpecImg.
ImgContentTypes == {"image/jpeg", "text/plain"}

\* file.content_type.startswith('image/')
IsImageType(content_type) == content_type \in {"image/jpeg", "image/webp"}

\* file.content_type.split('/')[1].upper()
UploadFormat(content_type) ==
    CASE content_type = "image/jpeg" -> "JPEG"
      [] content_type = "image/webp" -> "WEBP"
      [] OTHER -> "PLAIN"

ImageIds == <<"i1", "i2", "i3", "i4">>

\* What get_current_user can hand a handler.
CurrentUsers == {Nothing} \cup {get_user_by_id(u.id, users) : u \in users}

ImageBody(img, views) ==
    [id |-> img.id, uploader_id |-> img.uploader_id, privacy |-> img.privacy,
     views |-> views, format |-> img.format, uploaded_at |-> img.uploaded_at]

\* What the upload's calls outside the database do: the storage service stores
\* the file, or raises; PIL opens the bytes, or raises.
UploadOutcomes == {"ok", "storage_error", "not_an_image"}

\* The reads counted so far, over all images.
RECURSIVE TotalViews(_)
TotalViews(rows) ==
    IF rows = {} THEN 0
    ELSE LET r == CHOOSE r \in rows : TRUE IN r.views + TotalViews(rows \ {r})

(***************************************************************************)
(* POST /upload/image, without tags.                                       *)
(***************************************************************************)
upload_image(content_type, privacy, outcome, current_user) ==
    /\ LET req == [content_type |-> content_type, privacy |-> privacy,
                   current_user |-> current_user]
       IN  IF current_user = Nothing
           THEN /\ resp' = Response("upload", "enhanced", req, 401, "Authentication required",
                                    Nothing, Nothing, Nothing)
                /\ UNCHANGED <<users, images, next_img>>
           ELSE IF ~IsImageType(content_type)
           THEN /\ resp' = Response("upload", "enhanced", req, 400, "File must be an image",
                                    Nothing, Nothing, Nothing)
                /\ UNCHANGED <<users, images, next_img>>
           ELSE IF outcome # "ok"
           THEN /\ resp' = Response("upload", "enhanced", req, 500, "Image upload failed",
                                    Nothing, Nothing, Nothing)
                /\ UNCHANGED <<users, images, next_img>>
           ELSE /\ next_img < MaxImages
                /\ LET img == [id |-> ImageIds[next_img + 1],
                               uploader_id |-> current_user[1].id,
                               privacy |-> privacy, views |-> 0,
                               format |-> UploadFormat(content_type),
                               uploaded_at |-> next_img + 1]   \* datetime.now: later than every earlier upload
                   IN  /\ images' = images \cup {img}
                       /\ next_img' = next_img + 1
                       /\ users' = {IF u.id = current_user[1].id
                                    THEN [u EXCEPT !.uploads = @ + 1] ELSE u : u \in users}
                       /\ resp' = IF img.format \in ImageFormat
                                  THEN Response("upload", "enhanced", req, 200, "",
                                                Some(ImageBody(img, 0)), Nothing, Nothing)
                                  ELSE Response("upload", "enhanced", req, 500,
                                                "Image upload failed", Nothing, Nothing, Nothing)
    /\ UNCHANGED <<next_id, clock, issued, reg, tags, image_tags, committed,
                   storage, ai, migrations>>

\* A permission check that ignores the role.
AccessDenied_owner_only(current_user, img) ==
    img.privacy = "private" /\ img.uploader_id # current_user.id

\* The permission check of get_image: the 403 branch.
AccessDenied(current_user, img) ==
    /\ current_user.role # "Admin"
    /\ img.privacy = "private"
    /\ img.uploader_id # current_user.id

\* A handler whose except clause answers every exception alike.
get_image_except_generic(status, detail) ==
    [status |-> 500, detail |-> "Failed to get image"]

\* get_image's "except HTTPException: raise": an HTTPException raised inside the
\* try block leaves the handler as it was raised.
get_image_except(status, detail) == [status |-> status, detail |-> detail]

(***************************************************************************)
(* GET /images/{image_id}                                                  *)
(***************************************************************************)
get_image(image_id, current_user) ==
    /\ LET req == [image_id |-> image_id, current_user |-> current_user]
           found == {i \in images : i.id = image_id}
       IN  IF current_user = Nothing
           THEN /\ resp' = Response("get", "enhanced", req, 401, "Authentication required",
                                    Nothing, Nothing, Nothing)
                /\ UNCHANGED images
           ELSE IF found = {}
           THEN /\ resp' = Response("get", "enhanced", req,
                                    get_image_except(404, "Image not found").status,
                                    get_image_except(404, "Image not found").detail,
                                    Nothing, Nothing, Nothing)
                /\ UNCHANGED images
           ELSE LET img == CHOOSE i \in found : TRUE
                IN  IF AccessDenied(current_user[1], img)
                    THEN /\ resp' = Response("get", "enhanced", req,
                                             get_image_except(403, "Access denied").status,
                                             get_image_except(403, "Access denied").detail,
                                             Nothing, Nothing, Nothing)
                         /\ UNCHANGED images
                    ELSE /\ TotalViews(images) < MaxViews
                         /\ images' = (images \ {img}) \cup {[img EXCEPT !.views = @ + 1]}
                         /\ resp' = IF img.format \in ImageFormat
                                    THEN Response("get", "enhanced", req, 200, "",
                                                  Some(ImageBody(img, img.views + 1)),
                                                  Nothing, Nothing)
                                    ELSE Response("get", "enhanced", req, 500,
                                                  "Failed to get image", Nothing, Nothing, Nothing)
    /\ UNCHANGED <<users, next_id, clock, issued, reg, next_img, tags, image_tags, committed,
                   storage, ai, migrations>>


\* A WHERE clause of the explicit filters only.
ListWhere_filters_only(current_user, user_id, privacy, img) ==
    /\ user_id # None => img.uploader_id = user_id
    /\ privacy # None => img.privacy = privacy

\* The WHERE clause get_images builds, applied to one row.
ListWhere(current_user, user_id, privacy, img) ==
    /\ user_id # None => img.uploader_id = user_id
    /\ privacy # None => img.privacy = privacy
    /\ current_user.role # "Admin" =>
           (img.privacy = "public" \/ img.uploader_id = current_user.id)

\* ORDER BY uploaded_at DESC
RECURSIVE OrderByUploadedDesc(_)
OrderByUploadedDesc(rows) ==
    IF rows = {} THEN <<>>
    ELSE LET top == CHOOSE r \in rows : \A o \in rows : o.uploaded_at <= r.uploaded_at
         IN  <<top>> \o OrderByUploadedDesc(rows \ {top})

\* LIMIT ? OFFSET ?
LimitOffset(rows, limit, offset) ==
    SubSeq(rows, offset + 1, IF offset + limit < Len(rows) THEN offset + limit ELSE Len(rows))

\* The query strings of the list requests: page, limit, user_id, privacy.
\* limit defaults to 20, page to 1, the filters to None.
ListQueries ==
    {<<1, 20, None, None>>, <<1, 20, "editor-001", None>>, <<1, 20, None, "private">>,
     <<1, 20, None, "public">>, <<1, 20, "editor-001", "private">>,
     <<1, 1, None, None>>, <<2, 1, None, None>>}

(***************************************************************************)
(* GET /images                                                             *)
(***************************************************************************)
get_images(page, limit, user_id, privacy, current_user) ==
    /\ LET req == [page |-> page, limit |-> limit, user_id |-> user_id,
                   privacy |-> privacy, current_user |-> current_user]
       IN  IF current_user = Nothing
           THEN resp' = Response("list", "enhanced", req, 401, "Authentication required",
                                 Nothing, Nothing, Nothing)
           ELSE LET matching == {i \in images : ListWhere(current_user[1], user_id, privacy, i)}
                    total == Cardinality(matching)
                    offset == (page - 1) * limit
                    rows == LimitOffset(OrderByUploadedDesc(matching), limit, offset)
                IN  IF \E k \in 1 .. Len(rows) : rows[k].format \notin ImageFormat
                    THEN resp' = Response("list", "enhanced", req, 500, "Failed to get images",
                                          Nothing, Nothing, Nothing)
                    ELSE resp' = Response("list", "enhanced", req, 200, "",
                                          Some([images |-> [k \in 1 .. Len(rows) |->
                                                              ImageBody(rows[k], rows[k].views)],
                                                total |-> total, page |-> page, limit |-> limit,
                                                total_pages |-> (total + limit - 1) \div limit]),
                                          Nothing, Nothing)
    /\ UNCHANGED <<users, next_id, clock, issued, reg, images, next_img, tags, image_tags, committed,
                   storage, ai, migrations>>

(***************************************************************************)
(* SpecImg: the sample users upload, list and read images.                 *)
(***************************************************************************)
NextImg ==
    \/ \E ct \in ImgContentTypes, pr \in PrivacyLevel, o \in UploadOutcomes, cu \in CurrentUsers :
          upload_image(ct, pr, o, cu)
    \/ \E id \in {i.id : i \in images} \cup {"missing"}, cu \in CurrentUsers :
          get_image(id, cu)
    \/ \E q \in ListQueries, cu \in CurrentUsers :
          get_images(q[1], q[2], q[3], q[4], cu)

SpecImg == InitToken /\ [][NextImg]_vars

\* The access policy as specified.
canRead(requester, image) ==
    \/ image.privacy = "public"
    \/ requester.role = "Admin"
    \/ requester.id = image.uploader_id

\* C1: for every role, ownership and privacy, get of an existing image is
\* refused with 403 exactly when canRead is false, and when canRead is true and
\* the row converts to a response it answers 200 with the image.
C1_GetPermittedIffCanRead ==
    (/\ resp.op = "get"
     /\ resp.req[1].current_user # Nothing
     /\ \E i \in images : i.id = resp.req[1].image_id)
    => LET img == CHOOSE i \in images : i.id = resp.req[1].image_id
           requester == resp.req[1].current_user[1]
       IN  /\ resp.status = 403 <=> ~canRead(requester, img)
           /\ resp.status \in {200, 403, 500}
           /\ (canRead(requester, img) /\ img.format \in ImageFormat) =>
                  (resp.status = 200 /\ resp.body[1].id = img.id)
           /\ resp.status = 500 => img.format \notin ImageFormat

\* C1 witness: an Editor has just been refused another user's private image.
C1_Witness ==
    /\ resp.op = "get"
    /\ resp.status = 403
    /\ resp.req[1].current_user # Nothing
    /\ resp.req[1].current_user[1].role = "Editor"
    /\ \E i \in images : /\ i.id = resp.req[1].image_id
                         /\ i.privacy = "private"
                         /\ i.uploader_id # resp.req[1].current_user[1].id

\* The images a list request is specified to cover.
Listable(requester, user_id, privacy) ==
    {i \in images :
        /\ requester.role = "Admin" \/ i.privacy = "public" \/ i.uploader_id = requester.id
        /\ user_id = None \/ i.uploader_id = user_id
        /\ privacy = None \/ i.privacy = privacy}

\* C2: a list answers with items and a total that cover exactly the images
\* matching the explicit filters and, for a non-Admin, public or owned by the
\* requester; no other user's private image is listed or counted for a non-Admin.
C2_ListCoversExactlyVisible ==
    (resp.op = "list" /\ resp.status = 200)
    => LET r == resp.req[1]
           requester == r.current_user[1]
           body == resp.body[1]
           want == Listable(requester, r.user_id, r.privacy)
           items == {body.images[k].id : k \in 1 .. Len(body.images)}
       IN  /\ body.total = Cardinality(want)
           /\ items \subseteq {i.id : i \in want}
           /\ (r.page = 1 /\ r.limit >= body.total) => items = {i.id : i \in want}
           /\ requester.role # "Admin" =>
                 /\ \A i \in images :
                       (i.privacy = "private" /\ i.uploader_id # requester.id) => i.id \notin items
                 /\ body.total = Cardinality({i \in want : i.privacy = "public"
                                                            \/ i.uploader_id = requester.id})

\* C2 witness: a non-Admin has listed images while another user's private image
\* was stored, and was shown at least one image.
C2_Witness ==
    /\ resp.op = "list"
    /\ resp.status = 200
    /\ resp.req[1].current_user[1].role # "Admin"
    /\ resp.req[1].user_id = None
    /\ resp.req[1].privacy = None
    /\ resp.body[1].total >= 1
    /\ \E i \in images : i.privacy = "private" /\ i.uploader_id # resp.req[1].current_user[1].id


(***************************************************************************)
(* SpecDup: registrations, one after the other, with every combination of  *)
(* email (given or left out) and username.                                 *)
(***************************************************************************)
DupInputs == {d \in RegData : d.name = "Ann" /\ d.password # "pw2" /\ d.role # "Editor"}

\* DatabaseManager.get_user_by_id called with an id.
FindById(id) ==
    /\ resp' = Response("find", "enhanced", [id |-> id], 0, "",
                        get_user_by_id(id, users), Nothing, Nothing)
    /\ UNCHANGED <<users, next_id, clock, issued, reg, images, next_img, tags, image_tags, committed,
                   storage, ai, migrations>>

NextDup ==
    \/ \E v \in Variants \ {"simple"}, d \in DupInputs : Register(v, d)
    \/ \E k \in 1 .. Len(UserIds) : FindById(UserIds[k])
    \/ \E id \in {u.id : u \in users} : DeleteUser(id)

SpecDup == Init /\ [][NextDup]_vars

\* The stored users, other than the one the request itself created, that hold
\* the email (given or defaulted) or the username of the registration request.
RegCollisions ==
    {u \in users :
        /\ \/ u.email = EffEmail(resp.v, resp.req[1])
           \/ u.username = resp.req[1].username
        /\ resp.body # Nothing => u.id # resp.body[1].id}

\* C11: a registration whose email (given or defaulted) or username already
\* belongs to a stored user is rejected with a 4xx status and creates no user.
C11_DuplicateIs4xx ==
    (resp.op = "register" /\ RegCollisions # {}) =>
        /\ resp.status \in 400 .. 499
        /\ resp.body = Nothing


\* C12: a login is rejected with the same status and the same message whether
\* its identifier matches no user or matches a user whose password differs.
C12_LoginFailuresIndistinguishable ==
    resp.op = "login" =>
        LET m == LoginMatches(resp.v, resp.req[1].ident, users)
        IN  (m = {} \/ \A u \in m : ~pwd_verify(resp.req[1].password, u.password_hash)) =>
                /\ resp.status = 401
                /\ resp.detail = IF resp.v = "main" THEN "Incorrect username or password"
                                                    ELSE "Invalid credentials"
                /\ resp.body = Nothing
                /\ resp.token = Nothing
                /\ resp.handed = Nothing

\* C12 witness: a login naming a stored user with a wrong password has just
\* been rejected.
C12_Witness ==
    /\ resp.op = "login"
    /\ resp.status = 401
    /\ \E u \in LoginMatches(resp.v, resp.req[1].ident, users) :
           ~pwd_verify(resp.req[1].password, u.password_hash)


\* C13: with the correct password, a login whose identifier is the email or the
\* username of a registered, active user succeeds and returns that user.
C13_LoginByEmailOrUsername ==
    (resp.op = "login" /\ resp.v \in {"enhanced", "main", "simple"}) =>
        \A u \in users :
            (/\ u.is_active
             /\ resp.req[1].ident \in {u.email, u.username}
             /\ pwd_verify(resp.req[1].password, u.password_hash))
            => (resp.status = 200 /\ resp.body # Nothing /\ resp.body[1].id = u.id)


\* C14: a registration with a password of at least 8 characters and an email
\* and username no stored user holds succeeds; the created user is then found
\* by its id with the submitted email, username and name and with the submitted
\* role, Visitor when none was given; looking up an id no stored user has
\* finds nothing.
C14_RegisterThenFindById ==
    /\ (/\ resp.op = "register"
        /\ ValidRegData(resp.v, resp.req[1])
        /\ RegCollisions = {})
       => /\ resp.status = 200
          /\ \E u \in users :
                /\ u.id = resp.body[1].id
                /\ u.email = EffEmail(resp.v, resp.req[1])
                /\ u.username = resp.req[1].username
                /\ u.name = EffName(resp.v, resp.req[1])
                /\ u.role = IF resp.req[1].role = None THEN "Visitor" ELSE resp.req[1].role
                /\ \A w \in users : w.id = u.id => w = u
    /\ resp.op = "find" =>
          IF \E u \in users : u.id = resp.req[1].id
          THEN /\ resp.body # Nothing
               /\ \E u \in users :
                     /\ u.id = resp.req[1].id
                     /\ \A c \in {"id", "email", "username", "name", "role"} :
                           resp.body[1][c] = u[c]
          ELSE resp.body = Nothing

\* C14 witness: a stored user with role Visitor has just been found by its id.
C14_Witness ==
    /\ resp.op = "find"
    /\ resp.body # Nothing
    /\ resp.body[1].role = "Visitor"
    /\ resp.body[1].id = resp.req[1].id


\* C15: a get of a private image by an authenticated requester who is neither
\* Admin nor its uploader answers 403 "Access denied"; a get of an id that names
\* no image answers 404 "Image not found"; neither is answered as the other or
\* as a generic failure.
C15_ForbiddenDistinctFromNotFound ==
    (resp.op = "get" /\ resp.req[1].current_user # Nothing) =>
        LET requester == resp.req[1].current_user[1]
            found == {i \in images : i.id = resp.req[1].image_id}
        IN  /\ found = {} => (resp.status = 404 /\ resp.detail = "Image not found")
            /\ \A i \in found :
                  (i.privacy = "private" /\ requester.role # "Admin"
                   /\ i.uploader_id # requester.id)
                  => (resp.status = 403 /\ resp.detail = "Access denied")
            /\ resp.status = 404 => found = {}
            /\ resp.status = 403 => found # {}

\* C15 witness: an authenticated requester has just asked for an id that names
\* no image while images are stored.
C15_Witness ==
    /\ resp.op = "get"
    /\ resp.req[1].current_user # Nothing
    /\ resp.status = 404
    /\ images # {}
    /\ \A i \in images : i.id # resp.req[1].image_id


(***************************************************************************)
(* SpecView: GET /images/{image_id} served by concurrent workers.  Each    *)
(* request is its SELECT, then its UPDATE with the commit; statements of   *)
(* different requests interleave, each statement is atomic in the          *)
(* database.  The database is the one left by two uploads of SpecImg: a    *)
(* private image of the editor and a public image of the administrator.    *)
(***************************************************************************)
ViewImages ==
    {[id |-> ImageIds[1], uploader_id |-> "editor-001", privacy |-> "private", views |-> 0,
      format |-> "JPEG", uploaded_at |-> 1],
     [id |-> ImageIds[2], uploader_id |-> "admin-001", privacy |-> "public", views |-> 0,
      format |-> "JPEG", uploaded_at |-> 2]}

NoGet ==
    [p \in Procs |-> [pc |-> "idle", image_id |-> None, current_user |-> Nothing,
                      img |-> Nothing, status |-> 0, detail |-> "", views |-> 0,
                      after |-> 0]]

InitView ==
    /\ users = {IF \E i \in ViewImages : i.uploader_id = u.id
                THEN [u EXCEPT !.uploads = @ + 1] ELSE u : u \in SampleUsers}
    /\ next_id = 0
    /\ clock = 0
    /\ issued = {}
    /\ resp = Idle
    /\ reg = NoGet
    /\ images = ViewImages
    /\ next_img = Cardinality(ViewImages)
    /\ tags = {}
    /\ image_tags = {}
    /\ committed = Nothing
    /\ storage = Nothing
    /\ ai = Nothing
    /\ migrations = Nothing

GetDone(p, status, detail) ==
    reg' = [reg EXCEPT ![p] = [@ EXCEPT !.pc = "done", !.status = status, !.detail = detail]]

\* The request arrives; without a current user it is answered 401 at once.
GetStart(p, image_id, current_user) ==
    /\ reg[p].pc = "idle"
    /\ reg' = [reg EXCEPT ![p] =
                 [@ EXCEPT !.image_id = image_id, !.current_user = current_user,
                           !.pc = IF current_user = Nothing THEN "done" ELSE "select",
                           !.status = IF current_user = Nothing THEN 401 ELSE 0,
                           !.detail = IF current_user = Nothing THEN "Authentication required"
                                                                ELSE ""]]
    /\ UNCHANGED <<users, next_id, clock, issued, resp, images, next_img, tags, image_tags, committed,
                   storage, ai, migrations>>

\* SELECT i.* ... WHERE i.id = ?, then the permission check on the row read.
GetSelect(p) ==
    /\ reg[p].pc = "select"
    /\ LET found == {i \in images : i.id = reg[p].image_id}
       IN  IF found = {}
           THEN GetDone(p, get_image_except(404, "Image not found").status,
                        get_image_except(404, "Image not found").detail)
           ELSE LET img == CHOOSE i \in found : TRUE
                IN  IF AccessDenied(reg[p].current_user[1], img)
                    THEN GetDone(p, get_image_except(403, "Access denied").status,
                                 get_image_except(403, "Access denied").detail)
                    ELSE reg' = [reg EXCEPT ![p] = [@ EXCEPT !.pc = "update",
                                                              !.img = Some(img)]]
    /\ UNCHANGED <<users, next_id, clock, issued, resp, images, next_img, tags, image_tags, committed,
                   storage, ai, migrations>>

\* An increment computed in the application from the row read earlier.
views_plus_one_from_read(stored, read) == read + 1

\* UPDATE images SET views = views + 1: the new value of the column, from the
\* stored value (the value the handler read earlier plays no part).
views_plus_one(stored, read) == stored + 1

\* UPDATE images SET views = views + 1 WHERE id = ?; commit; then the response,
\* built from the row read by the SELECT.  after records the value written.
GetUpdate(p) ==
    /\ reg[p].pc = "update"
    /\ LET img == reg[p].img[1]
           cur == {i \in images : i.id = img.id}
           new == IF cur = {} THEN 0
                  ELSE views_plus_one((CHOOSE i \in cur : TRUE).views, img.views)
       IN  /\ images' = (images \ cur) \cup {[i EXCEPT !.views = new] : i \in cur}
           /\ reg' = [reg EXCEPT ![p] =
                        [@ EXCEPT !.pc = "done",
                                  !.status = IF img.format \in ImageFormat THEN 200 ELSE 500,
                                  !.detail = IF img.format \in ImageFormat THEN ""
                                             ELSE "Failed to get image",
                                  !.views = img.views + 1,
                                  !.after = new]]
    /\ UNCHANGED <<users, next_id, clock, issued, resp, next_img, tags, image_tags, committed,
                   storage, ai, migrations>>

NextView ==
    \/ \E p \in Procs, id \in {i.id : i \in images} \cup {"missing"}, cu \in CurrentUsers :
          GetStart(p, id, cu)
    \/ \E p \in Procs : GetSelect(p)
    \/ \E p \in Procs : GetUpdate(p)

SpecView == InitView /\ [][NextView]_vars

\* The reads of image i that were authorized and have done their UPDATE.
CountedReads(i) ==
    {p \in Procs :
        /\ reg[p].pc = "done"
        /\ reg[p].image_id = i.id
        /\ reg[p].current_user # Nothing
        /\ canRead(reg[p].current_user[1], i)}

\* C16: in every interleaving, an image's stored views equal the number of
\* authorized reads of it that have been served; reads answered 401, 403 or 404
\* add nothing.
C16_ViewsCountAuthorizedReads ==
    \A i \in images : i.views = Cardinality(CountedReads(i))

\* C16 witness: every worker has served an authorized read of the same image,
\* two of them at least having read the row before either wrote.
C16_Witness ==
    \E i \in images :
        /\ CountedReads(i) = Procs
        /\ \E p, q \in Procs : p # q /\ reg[p].img = reg[q].img

\* C17: the views value a successful get returns is the stored counter right
\* after that request's own increment.
C17_ResponseIsPostIncrement ==
    \A p \in Procs :
        (reg[p].pc = "done" /\ reg[p].status = 200) => reg[p].views = reg[p].after


(***************************************************************************)
(* SpecPage: clients list the gallery page by page.  The database holds    *)
(* two images whose INSERTs read the same clock value and an older third   *)
(* one; main.py serves its in-memory mock_images instead.                  *)
(***************************************************************************)
MaxPage == 3

PageLimits == {1, 2, 20}

PageImages ==
    {[id |-> "img-a", uploader_id |-> "editor-001", privacy |-> "public", views |-> 0,
      format |-> "JPEG", uploaded_at |-> 2],
     [id |-> "img-b", uploader_id |-> "admin-001", privacy |-> "public", views |-> 0,
      format |-> "JPEG", uploaded_at |-> 2],
     [id |-> "img-c", uploader_id |-> "editor-001", privacy |-> "private", views |-> 0,
      format |-> "PNG", uploaded_at |-> 1]}

\* main.py's image list, in the order of the literal; uploaded_at as the rank
\* of the three dates.
mock_images ==
    <<[id |-> "img-001", uploader_id |-> "user-001", privacy |-> "public", views |-> 120,
       format |-> None, uploaded_at |-> 1],
      [id |-> "img-002", uploader_id |-> "user-002", privacy |-> "public", views |-> 85,
       format |-> None, uploaded_at |-> 2],
      [id |-> "img-003", uploader_id |-> "user-001", privacy |-> "public", views |-> 95,
       format |-> None, uploaded_at |-> 3]>>

InitPage ==
    /\ users = SampleUsers
    /\ next_id = 0
    /\ clock = 0
    /\ issued = {}
    /\ resp = Idle
    /\ reg = NoReg
    /\ images = PageImages
    /\ next_img = Cardinality(PageImages)
    /\ tags = {}
    /\ image_tags = {}
    /\ committed = Nothing
    /\ storage = Nothing
    /\ ai = Nothing
    /\ migrations = Nothing

\* ORDER BY uploaded_at DESC names no second key: every order of the rows that
\* descends by uploaded_at is a result the database may return.
OrdersByUploadedDesc(rows) ==
    {s \in [1 .. Cardinality(rows) -> rows] :
        /\ \A j, k \in DOMAIN s : j # k => s[j] # s[k]
        /\ \A j, k \in DOMAIN s : j < k => s[j].uploaded_at >= s[k].uploaded_at}

\* GET /images of main_enhanced.py, the ORDER BY evaluated anew by each query.
get_images_query(page, limit, user_id, privacy, current_user) ==
    /\ LET req == [page |-> page, limit |-> limit, user_id |-> user_id,
                   privacy |-> privacy, current_user |-> current_user]
       IN  IF current_user = Nothing
           THEN resp' = Response("list", "enhanced", req, 401, "Authentication required",
                                 Nothing, Nothing, Nothing)
           ELSE LET matching == {i \in images : ListWhere(current_user[1], user_id, privacy, i)}
                    total == Cardinality(matching)
                    offset == (page - 1) * limit
                IN  \E sorted \in OrdersByUploadedDesc(matching) :
                       LET rows == LimitOffset(sorted, limit, offset)
                       IN  resp' = Response("list", "enhanced", req, 200, "",
                                            Some([images |-> [k \in 1 .. Len(rows) |->
                                                                ImageBody(rows[k], rows[k].views)],
                                                  total |-> total, page |-> page, limit |-> limit,
                                                  total_pages |-> (total + limit - 1) \div limit]),
                                            Nothing, Nothing)
    /\ UNCHANGED <<users, next_id, clock, issued, reg, images, next_img, tags, image_tags, committed,
                   storage, ai, migrations>>

\* GET /images of main.py: a slice of mock_images, filtered by uploader.
get_images_main(page, limit, user_id, current_user) ==
    /\ LET req == [page |-> page, limit |-> limit, user_id |-> user_id,
                   privacy |-> None, current_user |-> current_user]
       IN  IF current_user = Nothing
           THEN resp' = Response("list", "main", req, 401, "Authentication required",
                                 Nothing, Nothing, Nothing)
           ELSE LET filtered_images ==
                        IF user_id # None
                        THEN SelectSeq(mock_images, LAMBDA img : img.uploader_id = user_id)
                        ELSE mock_images
                    start_idx == (page - 1) * limit
                    rows == LimitOffset(filtered_images, limit, start_idx)
                IN  resp' = Response("list", "main", req, 200, "",
                                     Some([images |-> [k \in 1 .. Len(rows) |->
                                                         ImageBody(rows[k], rows[k].views)],
                                           total |-> Len(filtered_images), page |-> page,
                                           limit |-> limit, total_pages |-> None]),
                                     Nothing, Nothing)
    /\ UNCHANGED <<users, next_id, clock, issued, reg, images, next_img, tags, image_tags, committed,
                   storage, ai, migrations>>

NextPage ==
    \/ \E page \in 1 .. MaxPage, limit \in PageLimits, user_id \in {None, "editor-001"},
          privacy \in {None, "public"}, cu \in CurrentUsers :
          get_images_query(page, limit, user_id, privacy, cu)
    \/ \E page \in 1 .. MaxPage, limit \in PageLimits, user_id \in {None, "user-001"},
          cu \in CurrentUsers :
          get_images_main(page, limit, user_id, cu)

SpecPage == InitPage /\ [][NextPage]_vars

\* The ids on the page a list response carries.
PageIds(r) == {r.body[1].images[k].id : k \in 1 .. Len(r.body[1].images)}

\* C18: every page is in descending order of upload time, and two pages of the
\* same listing (same variant, requester, filters and limit, unchanged data)
\* with different page numbers share no image, also when upload times are equal.
C18_PagesOrderedAndDisjoint ==
    /\ []((resp.op = "list" /\ resp.status = 200) =>
            \A j, k \in DOMAIN resp.body[1].images :
               j < k => resp.body[1].images[j].uploaded_at >= resp.body[1].images[k].uploaded_at)
    /\ [][(/\ resp.op = "list" /\ resp.status = 200
           /\ resp'.op = "list" /\ resp'.status = 200
           /\ resp'.v = resp.v
           /\ resp'.req[1].page # resp.req[1].page
           /\ [resp'.req[1] EXCEPT !.page = 0] = [resp.req[1] EXCEPT !.page = 0])
          => PageIds(resp) \cap PageIds(resp') = {}]_vars


(***************************************************************************)
(* SpecUpload: POST /upload/image with tags, statement by statement on the *)
(* one shared connection.  images, tags, image_tags and users are what the *)
(* connection sees, its open transaction included; committed is what the   *)
(* last commit left in the database file.  The requests are served one     *)
(* after the other, slot p of reg holding the p-th upload.                 *)
(***************************************************************************)
Tables(u, i, t, it) == [users |-> u, images |-> i, tags |-> t, image_tags |-> it]

\* The tags form field, split at the commas: 'nature' is a sample tag of the
\* database, 'holiday' is not.
TagLists == {<<>>, <<"nature">>, <<"holiday">>, <<"nature", "holiday">>}

SampleTags == {[id |-> 1, name |-> "nature"]}

UploadContentTypes == {"image/jpeg", "image/webp", "text/plain"}

Uploaders == {Nothing} \cup {get_user_by_id(id, SampleUsers) : id \in {"editor-001"}}

NoUpload ==
    [p \in Procs |-> [pc |-> "idle", current_user |-> Nothing, content_type |-> None,
                      tag_list |-> <<>>, todo |-> <<>>, image_id |-> None,
                      status |-> 0, detail |-> "", before |-> Nothing]]

InitUpload ==
    /\ users = SampleUsers
    /\ next_id = 0
    /\ clock = 0
    /\ issued = {}
    /\ resp = Idle
    /\ reg = NoUpload
    /\ images = {}
    /\ next_img = 0
    /\ tags = SampleTags
    /\ image_tags = {}
    /\ committed = Tables(SampleUsers, {}, SampleTags, {})
    /\ storage = Nothing
    /\ ai = Nothing
    /\ migrations = Nothing

\* The request arrives: the checks before the try block, then the storage
\* service and PIL, which may raise into the handler's except Exception.
UpStart(p, content_type, tag_list, outcome, current_user) ==
    /\ reg[p].pc = "idle"
    /\ \A q \in Procs : q < p => reg[q].pc = "done"
    /\ LET exit == IF current_user = Nothing
                   THEN [status |-> 401, detail |-> "Authentication required"]
                   ELSE IF ~IsImageType(content_type)
                   THEN [status |-> 400, detail |-> "File must be an image"]
                   ELSE IF outcome # "ok"
                   THEN [status |-> 500, detail |-> "Image upload failed"]
                   ELSE [status |-> 0, detail |-> ""]
       IN  reg' = [reg EXCEPT ![p] =
                     [@ EXCEPT !.pc = IF exit.status = 0 THEN "insert" ELSE "done",
                               !.current_user = current_user,
                               !.content_type = content_type,
                               !.tag_list = tag_list,
                               !.status = exit.status,
                               !.detail = exit.detail,
                               !.before = Some(committed)]]
    /\ UNCHANGED <<users, next_id, clock, issued, resp, images, next_img, tags, image_tags,
                   committed, storage, ai, migrations>>

\* INSERT INTO images (...), through db.execute: no commit.
UpInsertImage(p) ==
    /\ reg[p].pc = "insert"
    /\ LET img == [id |-> ImageIds[next_img + 1],
                   uploader_id |-> reg[p].current_user[1].id,
                   privacy |-> "public", views |-> 0,
                   format |-> UploadFormat(reg[p].content_type),
                   uploaded_at |-> next_img + 1]
       IN  /\ images' = images \cup {img}
           /\ next_img' = next_img + 1
           /\ reg' = [reg EXCEPT ![p] = [@ EXCEPT !.pc = "tags", !.image_id = img.id,
                                                  !.todo = reg[p].tag_list]]
    /\ UNCHANGED <<users, next_id, clock, issued, resp, tags, image_tags, committed,
                   storage, ai, migrations>>

\* One round of the tag loop: get_or_create_tag, which for an unknown name
\* INSERTs the tag and commits the connection's transaction, then
\* INSERT OR IGNORE INTO image_tags.
UpTag(p) ==
    /\ reg[p].pc = "tags"
    /\ reg[p].todo # <<>>
    /\ LET tag_name == Head(reg[p].todo)
           known == {t \in tags : t.name = tag_name}
           tag_id == IF known # {} THEN (CHOOSE t \in known : TRUE).id
                     ELSE Cardinality(tags) + 1
       IN  /\ IF known # {}
              THEN UNCHANGED <<tags, committed>>
              ELSE /\ tags' = tags \cup {[id |-> tag_id, name |-> tag_name]}
                   /\ committed' = Tables(users, images, tags', image_tags)
           /\ image_tags' = image_tags \cup {<<reg[p].image_id, tag_id>>}
           /\ reg' = [reg EXCEPT ![p] = [@ EXCEPT !.todo = Tail(reg[p].todo)]]
    /\ UNCHANGED <<users, next_id, clock, issued, resp, images, next_img, storage, ai, migrations>>

\* UPDATE users SET uploads = uploads + 1 WHERE id = ?
UpCount(p) ==
    /\ reg[p].pc = "tags"
    /\ reg[p].todo = <<>>
    /\ users' = {IF u.id = reg[p].current_user[1].id
                 THEN [u EXCEPT !.uploads = @ + 1] ELSE u : u \in users}
    /\ reg' = [reg EXCEPT ![p] = [@ EXCEPT !.pc = "commit"]]
    /\ UNCHANGED <<next_id, clock, issued, resp, images, next_img, tags, image_tags, committed,
                   storage, ai, migrations>>

\* db.commit(), then the response: ImageFormat(...) raises for a value that is
\* not in the enum, and except Exception answers 500.
UpCommit(p) ==
    /\ reg[p].pc = "commit"
    /\ committed' = Tables(users, images, tags, image_tags)
    /\ LET ok == UploadFormat(reg[p].content_type) \in ImageFormat
       IN  reg' = [reg EXCEPT ![p] = [@ EXCEPT !.pc = "done",
                                               !.status = IF ok THEN 200 ELSE 500,
                                               !.detail = IF ok THEN ""
                                                          ELSE "Image upload failed"]]
    /\ UNCHANGED <<users, next_id, clock, issued, resp, images, next_img, tags, image_tags,
                   storage, ai, migrations>>

NextUpload ==
    \/ \E p \in Procs, ct \in UploadContentTypes, tl \in TagLists, o \in UploadOutcomes,
          cu \in Uploaders :
          UpStart(p, ct, tl, o, cu)
    \/ \E p \in Procs : UpInsertImage(p)
    \/ \E p \in Procs : UpTag(p)
    \/ \E p \in Procs : UpCount(p)
    \/ \E p \in Procs : UpCommit(p)

SpecUpload == InitUpload /\ [][NextUpload]_vars

\* C19: in every committed state, an upload's image row is present only
\* together with all of its tag links and the +1 on its uploader's counter.
C19_UploadIsAtomic ==
    \A p \in Procs :
        (/\ reg[p].image_id # None
         /\ \E i \in committed.images : i.id = reg[p].image_id)
        => /\ \A k \in 1 .. Len(reg[p].tag_list) :
                 \E t \in committed.tags :
                    /\ t.name = reg[p].tag_list[k]
                    /\ <<reg[p].image_id, t.id>> \in committed.image_tags
           /\ \A u \in committed.users :
                 u.id = reg[p].current_user[1].id =>
                    \E s \in SampleUsers :
                       /\ s.id = u.id
                       /\ u.uploads = s.uploads
                            + Cardinality({i \in committed.images : i.uploader_id = u.id})

\* C20: once an upload has answered with a failure, the committed images, tag
\* links and users are those committed before the request, and no tag
\* committed before is gone.
C20_FailedUploadPersistsNothing ==
    \A p \in Procs :
        (reg[p].pc = "done" /\ reg[p].status >= 400 /\ \A q \in Procs : q > p => reg[q].pc = "idle")
        => /\ committed.images = reg[p].before[1].images
           /\ committed.image_tags = reg[p].before[1].image_tags
           /\ committed.users = reg[p].before[1].users
           /\ reg[p].before[1].tags \subseteq committed.tags


(***************************************************************************)
(* StorageService (storage_service.py).  An object is a record of the      *)
(* place that holds it (the local upload directory or an S3 bucket), its   *)
(* key <<folder, name>>, its bytes and its modification time.  A URL is    *)
(* the sequence of its parts between the slashes.                          *)
(***************************************************************************)
MaxStores == 2

StorageTypes == {"local", "s3", "minio"}

local_upload_path == "uploads"

s3_bucket == "clonegallery-images"

s3_thumbnail_bucket == "clonegallery-thumbnails"

\* The uploaded bytes: a picture PIL can read and resize, a file whose header
\* PIL reads but whose data it cannot resize, and bytes PIL cannot open.
FileData == {"jpeg", "truncated", "junk"}

\* Image.open(io.BytesIO(data)) succeeds.
Opens(data) == data \in {"jpeg", "truncated"}

\* len(data), in units of the model.
SizeOf(data) == CASE data = "jpeg" -> 3 [] data = "truncated" -> 2 [] data = "junk" -> 1
                  [] OTHER -> 1

\* os.path.splitext(filename)[1]
FileExt(filename) == IF filename = "photo.jpg" THEN ".jpg" ELSE ""

\* _generate_file_key: folder/uuid4 + extension.
generate_file_key(uuid, filename, folder) == <<folder, <<uuid, FileExt(filename)>>>>

\* A thumbnailer that lets the error out (as Nothing) instead of falling back.
create_thumbnail_raising(image_data) ==
    IF image_data = "jpeg" THEN Some(<<"thumbnail", image_data>>) ELSE Nothing

\* _create_thumbnail: the resized JPEG, or the bytes it was given when PIL
\* raises; it never raises itself.
create_thumbnail(image_data) ==
    IF image_data = "jpeg" THEN Some(<<"thumbnail", image_data>>) ELSE Some(image_data)

\* The URL upload_file returns for a key held in a bucket.
ObjectUrl(storage_type, bucket, key) ==
    CASE storage_type = "local" -> <<"", "uploads", key[1], key[2]>>
      [] storage_type = "minio" -> <<"http:", "", "minio:9000", bucket, key[1], key[2]>>
      [] OTHER -> <<"https:", "", <<bucket, ".s3.amazonaws.com">>, key[1], key[2]>>

\* url.replace('/uploads/', ''), then os.path.join(local_upload_path, ...).
LocalPath(url) ==
    IF Len(url) >= 2 /\ url[1] = "" /\ url[2] = "uploads"
    THEN SubSeq(url, 3, Len(url))
    ELSE url

\* url.split('/')[-2] + '/' + url.split('/')[-1]
S3Key(url) == <<url[Len(url) - 1], url[Len(url)]>>

\* The bucket (or directory) that holds the originals and the one that holds
\* the thumbnails.
FileBucket(storage_type) == IF storage_type = "local" THEN local_upload_path ELSE s3_bucket

ThumbBucket(storage_type) ==
    IF storage_type = "local" THEN local_upload_path ELSE s3_thumbnail_bucket

\* The key under which delete_file and get_file_info look a URL up.
UrlKey(storage_type, url) == IF storage_type = "local" THEN LocalPath(url) ELSE S3Key(url)

StoredAt(bucket, key) == {f \in storage.files : f.bucket = bucket /\ f.key = key}

\* A store in which only a failure of the first write is an error.
WriteRaises_first_only(io, k) == io = "fail_first" /\ k = 1

\* The k-th write of upload_file raises (open/write, put_object) and the
\* exception leaves upload_file.
WriteRaises(io, k) == (io = "fail_first" /\ k = 1) \/ (io = "fail_second" /\ k = 2)

StoreIo == {"ok", "fail_first", "fail_second"}

InitStore ==
    /\ users = SampleUsers
    /\ next_id = 0
    /\ clock = 0
    /\ issued = {}
    /\ resp = Idle
    /\ reg = NoReg
    /\ images = {}
    /\ next_img = 0
    /\ tags = {}
    /\ image_tags = {}
    /\ committed = Nothing
    /\ storage \in [storage_type : StorageTypes, files : {{}}, next_key : {0}]
    /\ ai = Nothing
    /\ migrations = Nothing

\* upload_file on the service st at time now: the two keys, the original
\* written, the thumbnail made and written, then the two URLs.  urls is what
\* it returns, Nothing when an exception left it.
Stored(st, file_data, filename, io, now) ==
    LET t == st.storage_type
        file_key == generate_file_key(st.next_key + 1, filename, "images")
        thumbnail_key == generate_file_key(st.next_key + 2, filename, "thumbnails")
        original == [bucket |-> FileBucket(t), key |-> file_key, data |-> file_data,
                     modified |-> now]
        thumbnail_data == create_thumbnail(file_data)
    IN  IF WriteRaises(io, 1)
        THEN [storage |-> [st EXCEPT !.next_key = @ + 2], urls |-> Nothing]
        ELSE IF thumbnail_data = Nothing \/ WriteRaises(io, 2)
        THEN [storage |-> [st EXCEPT !.next_key = @ + 2, !.files = @ \cup {original}],
              urls |-> Nothing]
        ELSE [storage |-> [st EXCEPT !.next_key = @ + 2,
                                     !.files = @ \cup {original,
                                                       [bucket |-> ThumbBucket(t),
                                                        key |-> thumbnail_key,
                                                        data |-> thumbnail_data[1],
                                                        modified |-> now]}],
              urls |-> Some(<<ObjectUrl(t, FileBucket(t), file_key),
                              ObjectUrl(t, ThumbBucket(t), thumbnail_key)>>)]

\* A call of upload_file.  body is what it returns; "raised" says that an
\* exception left it.
upload_file(file_data, filename, io) ==
    /\ storage.next_key < 2 * MaxStores
    /\ LET done == Stored(storage, file_data, filename, io, clock)
           req == [file_data |-> file_data, filename |-> filename, io |-> io]
       IN  /\ storage' = done.storage
           /\ resp' = Response("store", storage.storage_type, req, 0,
                               IF done.urls = Nothing THEN "raised" ELSE "",
                               done.urls, Nothing, Nothing)
    /\ UNCHANGED <<users, next_id, clock, issued, reg, images, next_img, tags, image_tags,
                   committed, ai, migrations>>

\* A delete that removes the original only.
DeleteTargets_original_only(storage_type, file_url, thumbnail_url) ==
    <<[bucket |-> FileBucket(storage_type), key |-> UrlKey(storage_type, file_url)]>>

\* The objects delete_file removes, in its order: the original, then the
\* thumbnail.
DeleteTargets(storage_type, file_url, thumbnail_url) ==
    <<[bucket |-> FileBucket(storage_type), key |-> UrlKey(storage_type, file_url)],
      [bucket |-> ThumbBucket(storage_type), key |-> UrlKey(storage_type, thumbnail_url)]>>

DeleteIo == {"ok", "fail_first", "fail_second"}

\* delete_file.  Locally an object is removed only if os.path.exists finds it,
\* so only the removal of an existing file can fail; delete_object is sent for
\* absent keys too and answers without error.  io names the removal that the
\* file system or the object store fails, if it is attempted.
delete_file(file_url, thumbnail_url, io) ==
    /\ LET t == storage.storage_type
           targets == DeleteTargets(t, file_url, thumbnail_url)
           attempted(k) == k <= Len(targets) /\
                           (t = "local" => StoredAt(targets[k].bucket, targets[k].key) # {})
           fails(k) == attempted(k) /\ ((io = "fail_first" /\ k = 1) \/
                                        (io = "fail_second" /\ k = 2))
           removed == IF fails(1) THEN {}
                      ELSE IF fails(2) THEN {1} \cap DOMAIN targets
                      ELSE DOMAIN targets
           gone == UNION {StoredAt(targets[k].bucket, targets[k].key) : k \in removed}
           req == [file_url |-> file_url, thumbnail_url |-> thumbnail_url, io |-> io]
       IN  /\ storage' = [storage EXCEPT !.files = @ \ gone]
           /\ resp' = Response("delete", t, req, 0, "", Some(~(fails(1) \/ fails(2))),
                               Nothing, Nothing)
    /\ UNCHANGED <<users, next_id, clock, issued, reg, images, next_img, tags, image_tags,
                   committed, ai, migrations>>

InfoIo == {"ok", "fail"}

\* get_file_info: os.stat of the local file, or head_object; io = "fail" is an
\* error other than a 404 of the object store, or an OSError of os.stat.  body
\* is the Optional[dict] it returns, Nothing for None.
get_file_info(file_url, io) ==
    /\ LET t == storage.storage_type
           found == StoredAt(FileBucket(t), UrlKey(t, file_url))
           f == CHOOSE f \in found : TRUE
           req == [file_url |-> file_url, io |-> io]
           info == IF t = "local"
                   THEN IF found = {} THEN Nothing
                        ELSE IF io = "fail" THEN Nothing
                        ELSE Some([size |-> SizeOf(f.data), modified |-> f.modified,
                                   exists |-> TRUE])
                   ELSE IF io = "fail" THEN Nothing
                        ELSE IF found = {} THEN Some([exists |-> FALSE])
                        ELSE Some([size |-> SizeOf(f.data), modified |-> f.modified,
                                   exists |-> TRUE, content_type |-> "image/jpeg"])
       IN  resp' = Response("inspect", t, req, 0, "", info, Nothing, Nothing)
    /\ UNCHANGED <<users, next_id, clock, issued, reg, images, next_img, tags, image_tags,
                   committed, storage, ai, migrations>>

\* The pairs of URLs upload_file hands out, stored or not.
StoreUrls ==
    {<<ObjectUrl(storage.storage_type, FileBucket(storage.storage_type),
                 generate_file_key(2 * j - 1, "photo.jpg", "images")),
       ObjectUrl(storage.storage_type, ThumbBucket(storage.storage_type),
                 generate_file_key(2 * j, "photo.jpg", "thumbnails"))>> : j \in 1 .. MaxStores}

NextStore ==
    \/ \E d \in FileData, io \in StoreIo : upload_file(d, "photo.jpg", io)
    \/ \E u \in StoreUrls, io \in DeleteIo : delete_file(u[1], u[2], io)
    \/ \E u \in StoreUrls, io \in InfoIo : get_file_info(u[1], io)

SpecStore == InitStore /\ [][NextStore]_vars


\* The stored objects a URL names, in a set of objects.
Named(url, files) ==
    {f \in files : ObjectUrl(storage.storage_type, f.bucket, f.key) = url}

\* C22: a store whose two writes succeed adds exactly two objects, under keys
\* not in use before, and returns two distinct URLs that name them, the
\* first holding the given bytes; a store with a failing write raises and
\* returns no URL.
C22_StoreWritesBothOrFails ==
    [][(resp'.op = "store" /\ storage'.next_key # storage.next_key) =>
         LET new == storage'.files \ storage.files
         IN  IF resp'.req[1].io = "ok"
             THEN /\ resp'.body # Nothing
                  /\ resp'.detail = ""
                  /\ Cardinality(new) = 2
                  /\ resp'.body[1][1] # resp'.body[1][2]
                  /\ \A f \in new : \A g \in storage.files :
                        ~(f.bucket = g.bucket /\ f.key = g.key)
                  /\ \E f \in new : /\ Named(resp'.body[1][1], new) = {f}
                                    /\ f.data = resp'.req[1].file_data
                  /\ \E f \in new : Named(resp'.body[1][2], new) = {f}
             ELSE /\ resp'.body = Nothing
                  /\ resp'.detail = "raised"
                  /\ Cardinality(new) <= 1]_vars

\* C22 witness: the second of two successful stores has returned its URLs and
\* four objects are stored.
C22_Witness ==
    /\ resp.op = "store"
    /\ resp.body # Nothing
    /\ Cardinality(storage.files) = 4

\* C23: a store of bytes the thumbnailer cannot resize succeeds when both
\* writes do, and the object its thumbnail URL names holds the given bytes.
C23_ThumbnailFallsBack ==
    (/\ resp.op = "store"
     /\ resp.req[1].io = "ok"
     /\ resp.req[1].file_data \in {"truncated", "junk"})
    => /\ resp.body # Nothing
       /\ \E f \in storage.files :
             /\ Named(resp.body[1][2], storage.files) = {f}
             /\ f.data = resp.req[1].file_data

\* C23 witness: a store of bytes PIL cannot open has returned its two URLs.
C23_Witness ==
    /\ resp.op = "store"
    /\ resp.req[1].file_data = "junk"
    /\ resp.body # Nothing

\* C24: delete never raises; it answers false only when a removal failed; it
\* answers true when nothing fails, absent objects included; after true no
\* object is stored under either URL.
C24_DeleteIsBestEffort ==
    [][resp'.op = "delete" =>
         /\ resp'.detail # "raised"
         /\ resp'.body \in {Some(TRUE), Some(FALSE)}
         /\ resp'.req[1].io = "ok" => resp'.body = Some(TRUE)
         /\ (/\ storage.storage_type = "local"
             /\ Named(resp'.req[1].file_url, storage.files) = {}
             /\ Named(resp'.req[1].thumbnail_url, storage.files) = {})
            => resp'.body = Some(TRUE)
         /\ resp'.body = Some(TRUE) =>
               /\ Named(resp'.req[1].file_url, storage'.files) = {}
               /\ Named(resp'.req[1].thumbnail_url, storage'.files) = {}]_vars

\* C24 witness: a delete of a stored pair has answered true while another
\* pair is still stored.
C24_Witness ==
    /\ resp.op = "delete"
    /\ resp.body = Some(TRUE)
    /\ storage.next_key = 4
    /\ Cardinality(storage.files) = 2

\* C25: while the original exists, inspect of its URL answers exactly exists,
\* size and modified; once it does not exist, inspect answers exactly
\* {exists: false}; in every variant.
C25_InspectContract ==
    (resp.op = "inspect" /\ resp.req[1].io = "ok")
    => LET found == Named(resp.req[1].file_url, storage.files)
       IN  IF found # {}
           THEN \E f \in found :
                   resp.body = Some([exists |-> TRUE, size |-> SizeOf(f.data),
                                     modified |-> f.modified])
           ELSE resp.body = Some([exists |-> FALSE])


(***************************************************************************)
(* SpecOrphan: POST /upload/image with its call of the storage service.    *)
(* The handler stores the file, opens it with PIL, and only then writes    *)
(* and commits the image row; no handler deletes a stored object.          *)
(***************************************************************************)
upload_image_stored(file_data, io, current_user) ==
    /\ storage.next_key < 2 * MaxStores
    /\ next_img < MaxImages
    /\ LET req == [file_data |-> file_data, io |-> io, current_user |-> current_user,
                   keys_after |-> storage.next_key]
           done == Stored(storage, file_data, "photo.jpg", io, clock)
       IN  IF current_user = Nothing
           THEN /\ resp' = Response("upload", "enhanced", req, 401, "Authentication required",
                                    Nothing, Nothing, Nothing)
                /\ UNCHANGED <<users, images, next_img, storage>>
           ELSE IF done.urls = Nothing \/ ~Opens(file_data)
           THEN /\ resp' = Response("upload", "enhanced", req, 500, "Image upload failed",
                                    Nothing, Nothing, Nothing)
                /\ storage' = done.storage
                /\ UNCHANGED <<users, images, next_img>>
           ELSE LET img == [id |-> ImageIds[next_img + 1],
                            uploader_id |-> current_user[1].id,
                            url |-> done.urls[1][1], thumbnail |-> done.urls[1][2],
                            privacy |-> "public", views |-> 0, format |-> "JPEG",
                            uploaded_at |-> next_img + 1]
                IN  /\ storage' = done.storage
                    /\ images' = images \cup {img}
                    /\ next_img' = next_img + 1
                    /\ users' = {IF u.id = current_user[1].id
                                 THEN [u EXCEPT !.uploads = @ + 1] ELSE u : u \in users}
                    /\ resp' = Response("upload", "enhanced", req, 200, "",
                                        Some(img), Nothing, Nothing)
    /\ UNCHANGED <<next_id, clock, issued, reg, tags, image_tags, committed, ai, migrations>>

NextOrphan ==
    \E d \in FileData, io \in StoreIo, cu \in Uploaders : upload_image_stored(d, io, cu)

SpecOrphan == InitStore /\ [][NextOrphan]_vars

\* C21: after an upload whose thumbnail could not be derived, every object
\* the upload stored is the url or the thumbnail of a persisted image row.
C21_NoOrphanAfterThumbnailFailure ==
    (/\ resp.op = "upload"
     /\ resp.req[1].file_data \in {"truncated", "junk"}
     /\ resp.req[1].io = "ok")
    => \A f \in storage.files :
          f.key[2][1] > resp.req[1].keys_after =>
             \E i \in images : \/ Named(i.url, storage.files) = {f}
                               \/ Named(i.thumbnail, storage.files) = {f}


(***************************************************************************)
(* SpecTag: uploads with tags served at once by several worker processes,  *)
(* each with its own connection to the SQLite file.  A connection holds    *)
(* the file's write lock from its first write until its commit; a write    *)
(* that finds the lock held by another connection ends as "database is     *)
(* locked", which the handler answers with 500.  Every SELECT of           *)
(* get_or_create_tag follows a write of the same upload, so the tables the *)
(* lock holder sees are the tables.                                        *)
(***************************************************************************)
\* A lookup that inserts without looking.
get_or_create_tag_insert_only(tag_name, tbl) ==
    [id |-> Cardinality(tbl) + 1, created |-> TRUE]

\* get_or_create_tag: the id of the row SELECTed by name, or the lastrowid of
\* the INSERT it makes (and commits) when there is none.
get_or_create_tag(tag_name, tbl) ==
    LET known == {t \in tbl : t.name = tag_name}
    IN  IF known # {}
        THEN [id |-> (CHOOSE t \in known : TRUE).id, created |-> FALSE]
        ELSE [id |-> Cardinality(tbl) + 1, created |-> TRUE]

NoTagging ==
    [p \in Procs |-> [pc |-> "idle", tag_list |-> <<>>, todo |-> <<>>, image_id |-> None,
                      tag_id |-> 0, got |-> <<>>, lock |-> FALSE, status |-> 0]]

InitTag ==
    /\ users = SampleUsers
    /\ next_id = 0
    /\ clock = 0
    /\ issued = {}
    /\ resp = Idle
    /\ reg = NoTagging
    /\ images = {}
    /\ next_img = 0
    /\ tags = SampleTags
    /\ image_tags = {}
    /\ committed = Nothing
    /\ storage = Nothing
    /\ ai = Nothing
    /\ migrations = Nothing

\* Another connection holds the write lock.
Locked(p) == \E q \in Procs : q # p /\ reg[q].lock

\* The upload of an authenticated user arrives and its tags field is split.
TagStart(p, tag_list) ==
    /\ reg[p].pc = "idle"
    /\ reg' = [reg EXCEPT ![p] = [@ EXCEPT !.pc = "insert", !.tag_list = tag_list,
                                           !.todo = tag_list]]
    /\ UNCHANGED <<users, next_id, clock, issued, resp, images, next_img, tags, image_tags,
                   committed, storage, ai, migrations>>

\* INSERT INTO images: the connection's first write.
TagInsertImage(p) ==
    /\ reg[p].pc = "insert"
    /\ ~Locked(p)
    /\ images' = images \cup {[id |-> ImageIds[next_img + 1], uploader_id |-> "editor-001",
                               privacy |-> "public", views |-> 0, format |-> "JPEG",
                               uploaded_at |-> next_img + 1]}
    /\ next_img' = next_img + 1
    /\ reg' = [reg EXCEPT ![p] = [@ EXCEPT !.pc = "tags", !.lock = TRUE,
                                           !.image_id = ImageIds[next_img + 1]]]
    /\ UNCHANGED <<users, next_id, clock, issued, resp, tags, image_tags, committed,
                   storage, ai, migrations>>

\* A write finds the lock held until the busy timeout: sqlite3 raises, and the
\* handler's except Exception answers 500.
TagBusy(p) ==
    /\ reg[p].pc \in {"insert", "link"}
    /\ Locked(p)
    /\ reg' = [reg EXCEPT ![p] = [@ EXCEPT !.pc = "done", !.status = 500]]
    /\ UNCHANGED <<users, next_id, clock, issued, resp, images, next_img, tags, image_tags,
                   committed, storage, ai, migrations>>

\* db.get_or_create_tag(tag_name); its commit ends the connection's
\* transaction and releases the lock.
TagLookup(p) ==
    /\ reg[p].pc = "tags"
    /\ reg[p].todo # <<>>
    /\ LET tag_name == Head(reg[p].todo)
           r == get_or_create_tag(tag_name, tags)
       IN  /\ tags' = IF r.created THEN tags \cup {[id |-> r.id, name |-> tag_name]} ELSE tags
           /\ reg' = [reg EXCEPT ![p] =
                        [@ EXCEPT !.pc = "link", !.tag_id = r.id,
                                  !.got = Append(@, [name |-> tag_name, id |-> r.id]),
                                  !.lock = IF r.created THEN FALSE ELSE @]]
    /\ UNCHANGED <<users, next_id, clock, issued, resp, images, next_img, image_tags,
                   committed, storage, ai, migrations>>

\* INSERT OR IGNORE INTO image_tags: a write, which takes the lock again when
\* the lookup has committed.
TagLink(p) ==
    /\ reg[p].pc = "link"
    /\ ~Locked(p)
    /\ image_tags' = image_tags \cup {<<reg[p].image_id, reg[p].tag_id>>}
    /\ reg' = [reg EXCEPT ![p] = [@ EXCEPT !.pc = "tags", !.todo = Tail(@), !.lock = TRUE]]
    /\ UNCHANGED <<users, next_id, clock, issued, resp, images, next_img, tags, committed,
                   storage, ai, migrations>>

\* UPDATE users SET uploads = uploads + 1, db.commit() and the response.
TagFinish(p) ==
    /\ reg[p].pc = "tags"
    /\ reg[p].todo = <<>>
    /\ users' = {IF u.id = "editor-001" THEN [u EXCEPT !.uploads = @ + 1] ELSE u : u \in users}
    /\ reg' = [reg EXCEPT ![p] = [@ EXCEPT !.pc = "done", !.status = 200, !.lock = FALSE]]
    /\ UNCHANGED <<next_id, clock, issued, resp, images, next_img, tags, image_tags,
                   committed, storage, ai, migrations>>

NextTag ==
    \/ \E p \in Procs, tl \in TagLists : TagStart(p, tl)
    \/ \E p \in Procs : TagInsertImage(p)
    \/ \E p \in Procs : TagBusy(p)
    \/ \E p \in Procs : TagLookup(p)
    \/ \E p \in Procs : TagLink(p)
    \/ \E p \in Procs : TagFinish(p)

SpecTag == InitTag /\ [][NextTag]_vars

\* C26: there is one tag per name and one name per id, and every lookup has
\* returned the id of the stored tag of its name, so that lookups of one name
\* agree, whichever upload made them.
C26_OneTagPerName ==
    /\ \A t1, t2 \in tags : (t1.name = t2.name \/ t1.id = t2.id) => t1 = t2
    /\ \A p \in Procs : \A k \in DOMAIN reg[p].got :
          [id |-> reg[p].got[k].id, name |-> reg[p].got[k].name] \in tags
    /\ \A p, q \in Procs : \A j \in DOMAIN reg[p].got : \A k \in DOMAIN reg[q].got :
          reg[p].got[j].name = reg[q].got[k].name => reg[p].got[j].id = reg[q].got[k].id

\* C26 witness: two uploads in flight at once have both looked up the new name
\* 'holiday', one of them having created it, and neither has finished.
C26_Witness ==
    \E p, q \in Procs :
        /\ p # q
        /\ reg[p].pc = "link" /\ reg[q].pc = "link"
        /\ \E k \in DOMAIN reg[p].got : reg[p].got[k].name = "holiday"
        /\ \E k \in DOMAIN reg[q].got : reg[q].got[k].name = "holiday"
        /\ Cardinality(tags) = 2


(***************************************************************************)
(* SpecGen: POST /generate/image.  ai holds the module's configuration     *)
(* (AI_PROVIDER, whether REPLICATE_API_TOKEN is set, whether the diffusion *)
(* pipeline is loaded), fixed when the server starts, and the position of  *)
(* the request being served; resp holds its answer.                       *)
(***************************************************************************)
AiProviders == {"local", "replicate", "openai"}

\* What generate_image_local does once the pipeline runs, what the POST to
\* Replicate answers, and what a GET of the prediction answers.
LocalOutcomes == {"image", "exception"}

PostAnswers == {"201", "other_status", "RequestException"}

PollAnswers == {"succeeded", "failed", "starting", "processing", "other_status",
                "RequestException"}

InitGen ==
    /\ users = SampleUsers
    /\ next_id = 0
    /\ clock = 0
    /\ issued = {}
    /\ resp = Idle
    /\ reg = NoReg
    /\ images = {}
    /\ next_img = 0
    /\ tags = {}
    /\ image_tags = {}
    /\ committed = Nothing
    /\ storage = Nothing
    /\ ai \in [AI_PROVIDER : AiProviders, token : BOOLEAN, pipeline : BOOLEAN, pc : {"idle"},
                status_data : {None}]
    /\ migrations = Nothing

\* generate_image's except Exception: HTTPException is an Exception, so every
\* exception raised inside the try block, whatever its status, is answered
\* with this one.
generate_image_except(status, detail) ==
    [status |-> 500, detail |-> "Image generation failed"]

GenAnswer(req, status, detail, body) ==
    resp' = Response("generate", "enhanced", req, status, detail, body, Nothing, Nothing)

\* The request arrives and runs up to its answer or, with Replicate, up to the
\* first poll of the prediction it has created.
GenStart(current_user, local, post) ==
    /\ ai.pc \in {"idle", "done"}
    /\ LET req == [current_user |-> current_user]
           raised(status, detail) ==
               GenAnswer(req, generate_image_except(status, detail).status,
                         generate_image_except(status, detail).detail, Nothing)
       IN  IF current_user = Nothing
           THEN /\ GenAnswer(req, 401, "Authentication required", Nothing)
                /\ ai' = [ai EXCEPT !.pc = "done"]
           ELSE IF ai.AI_PROVIDER = "local" /\ ai.pipeline
           THEN /\ IF local = "image"
                   THEN GenAnswer(req, 200, "", Some("stable-diffusion-v1-5"))
                   ELSE raised(500, "Image generation failed")
                /\ ai' = [ai EXCEPT !.pc = "done"]
           ELSE IF ai.AI_PROVIDER = "replicate"
           THEN IF ~ai.token
                THEN /\ raised(503, "Replicate API not configured")
                     /\ ai' = [ai EXCEPT !.pc = "done"]
                ELSE IF post = "201"
                THEN /\ resp' = Response("generate", "enhanced", req, 0, "", Nothing,
                                         Nothing, Nothing)
                     /\ ai' = [ai EXCEPT !.pc = "poll", !.status_data = None]
                ELSE /\ IF post = "other_status"
                        THEN raised(500, "Replicate API error")
                        ELSE raised(500, "External API error")
                     /\ ai' = [ai EXCEPT !.pc = "done"]
           ELSE /\ raised(503, "No AI provider available")
                /\ ai' = [ai EXCEPT !.pc = "done"]
    /\ UNCHANGED <<users, next_id, clock, issued, reg, images, next_img, tags, image_tags,
                   committed, storage, migrations>>

\* One round of `while True`: the GET of the prediction and what it leads to.
GenPoll(answer) ==
    /\ ai.pc = "poll"
    /\ LET req == resp.req[1]
           raised(status, detail) ==
               GenAnswer(req, generate_image_except(status, detail).status,
                         generate_image_except(status, detail).detail, Nothing)
       IN  CASE answer = "succeeded" ->
                  /\ GenAnswer(req, 200, "", Some("replicate/stable-diffusion"))
                  /\ ai' = [ai EXCEPT !.pc = "done", !.status_data = answer]
             [] answer = "failed" ->
                  /\ raised(500, "Image generation failed")
                  /\ ai' = [ai EXCEPT !.pc = "done", !.status_data = answer]
             [] answer = "other_status" ->
                  /\ raised(500, "Failed to check generation status")
                  /\ ai' = [ai EXCEPT !.pc = "done", !.status_data = answer]
             [] answer = "RequestException" ->
                  /\ raised(500, "External API error")
                  /\ ai' = [ai EXCEPT !.pc = "done", !.status_data = answer]
             [] OTHER ->
                  /\ ai' = [ai EXCEPT !.pc = "sleep", !.status_data = answer]
                  /\ UNCHANGED resp
    /\ UNCHANGED <<users, next_id, clock, issued, reg, images, next_img, tags, image_tags,
                   committed, storage, migrations>>

\* await asyncio.sleep(2) returns and the loop goes round.
GenWake ==
    /\ ai.pc = "sleep"
    /\ ai' = [ai EXCEPT !.pc = "poll"]
    /\ UNCHANGED <<users, next_id, clock, issued, resp, reg, images, next_img, tags,
                   image_tags, committed, storage, migrations>>

NextGen ==
    \/ \E cu \in CurrentUsers, l \in LocalOutcomes, po \in PostAnswers : GenStart(cu, l, po)
    \/ \E a \in PollAnswers : GenPoll(a)
    \/ GenWake

SpecGen == InitGen /\ [][NextGen]_vars

\* The server keeps running: a request that can take a step takes one.
SpecGenLive == SpecGen /\ WF_vars(NextGen)

\* C27: a generation request that has created its prediction is answered.
C27_GenerationEnds == (ai.pc = "poll") ~> (ai.pc = "done")

\* C28: with no AI provider available the answer is 503 'No AI provider
\* available', and with Replicate chosen but no token set it is 503.
C28_ErrorStatusKept ==
    (resp.op = "generate" /\ ai.pc = "done" /\ resp.req[1].current_user # Nothing)
    => /\ (ai.AI_PROVIDER # "replicate" /\ ~(ai.AI_PROVIDER = "local" /\ ai.pipeline))
          => (resp.status = 503 /\ resp.detail = "No AI provider available")
       /\ (ai.AI_PROVIDER = "replicate" /\ ~ai.token) => resp.status = 503

(***************************************************************************)
(* The migration runners: DatabaseMigrator (SQLite) and PostgreSQLMigrator. *)
(* migrations holds the runner in use, the *.sql files of its migrations    *)
(* directory, the versions in the migrations table, and the migrate() call  *)
(* in progress: the files it has still to run, the versions it has run and  *)
(* whether run_migration has raised.                                        *)
(***************************************************************************)
MaxMigrateCalls == 2

Migrators == {"sqlite", "postgresql"}

\* Versions as Python strings, one digit per character: "001", "002", "10", "2".
Versions == {<<0, 0, 1>>, <<0, 0, 2>>, <<1, 0>>, <<2>>}

\* Python's < on str: the first differing character decides, a proper prefix
\* is smaller.
RECURSIVE StrLess(_, _)
StrLess(a, b) ==
    IF b = <<>> THEN FALSE
    ELSE IF a = <<>> THEN TRUE
    ELSE IF Head(a) # Head(b) THEN Head(a) < Head(b)
    ELSE StrLess(Tail(a), Tail(b))

\* A migration file: its name "<version>_<name>.sql", and whether its SQL
\* itself inserts its version into the migrations table.
MigrationFiles ==
    [filename : {<<v, "migration.sql">> : v \in Versions}, inserts_version : BOOLEAN]

\* filename.split('_')[0]
VersionOf(file) == file.filename[1]

\* The directories: one file for a version.
MigrationDirs ==
    {d \in SUBSET MigrationFiles :
        /\ d # {}
        /\ \A f, g \in d : VersionOf(f) = VersionOf(g) => f = g}

InitMig ==
    /\ users = {}
    /\ next_id = 0
    /\ clock = 0
    /\ issued = {}
    /\ resp = Idle
    /\ reg = NoReg
    /\ images = {}
    /\ next_img = 0
    /\ tags = {}
    /\ image_tags = {}
    /\ committed = Nothing
    /\ storage = Nothing
    /\ ai = Nothing
    /\ migrations \in [migrator : Migrators, dir : MigrationDirs, applied : {{}},
                       pending : {<<>>}, executed : {<<>>}, pc : {"idle"},
                       previous : {"idle"}, failed : {FALSE}, calls : {0}]

get_applied_migrations(m) == m.applied

\* sorted(pending, key=lambda x: x[0])
RECURSIVE SortedByVersion(_)
SortedByVersion(files) ==
    IF files = {} THEN <<>>
    ELSE LET first == CHOOSE f \in files :
                          \A g \in files : g = f \/ StrLess(VersionOf(f), VersionOf(g))
         IN  <<first>> \o SortedByVersion(files \ {first})

\* A get_pending_migrations that leaves out `if version not in applied`.
get_pending_migrations_all_files(m) == SortedByVersion(m.dir)

get_pending_migrations(m) ==
    SortedByVersion({f \in m.dir : VersionOf(f) \notin get_applied_migrations(m)})

\* run_migration: the versions in the migrations table afterwards and whether
\* it raised.  executes is whether every statement of the file ran; kept is
\* whether, with SQLite, a version the script inserted before the failing
\* statement stays (executescript does not run the script in one transaction).
run_migration(m, file, executes, kept) ==
    IF m.migrator = "sqlite"
    THEN IF executes
         THEN [applied |-> IF file.inserts_version
                           THEN m.applied \cup {VersionOf(file)} ELSE m.applied,
               raised |-> FALSE]
         ELSE [applied |-> IF file.inserts_version /\ kept
                           THEN m.applied \cup {VersionOf(file)} ELSE m.applied,
               raised |-> TRUE]
    ELSE IF executes /\ ~file.inserts_version
         THEN [applied |-> m.applied \cup {VersionOf(file)}, raised |-> FALSE]
         \* a failing statement, or the runner's INSERT of a version the file
         \* has inserted already (version is UNIQUE): rollback and raise
         ELSE [applied |-> m.applied, raised |-> TRUE]

\* migrate() up to its loop: create_migrations_table, get_pending_migrations,
\* and the return when nothing is pending.
MigrateStart ==
    /\ migrations.pc \in {"idle", "returned", "raised"}
    /\ migrations.calls < MaxMigrateCalls
    /\ LET pending == get_pending_migrations(migrations)
       IN  migrations' = [migrations EXCEPT
                             !.pending = pending,
                             !.executed = <<>>,
                             !.previous = migrations.pc,
                             !.failed = FALSE,
                             !.calls = @ + 1,
                             !.pc = IF pending = <<>> THEN "returned" ELSE "loop"]
    /\ UNCHANGED <<users, next_id, clock, issued, resp, reg, images, next_img, tags,
                   image_tags, committed, storage, ai>>

\* One round of `for version, file_path in pending`.
MigrateStep(executes, kept) ==
    /\ migrations.pc = "loop"
    /\ LET file == Head(migrations.pending)
           run == run_migration(migrations, file, executes, kept)
       IN  migrations' = [migrations EXCEPT
                             !.applied = run.applied,
                             !.executed = Append(@, VersionOf(file)),
                             !.pending = Tail(@),
                             !.failed = run.raised,
                             !.pc = IF run.raised THEN "raised"
                                    ELSE IF Tail(migrations.pending) = <<>> THEN "returned"
                                    ELSE "loop"]
    /\ UNCHANGED <<users, next_id, clock, issued, resp, reg, images, next_img, tags,
                   image_tags, committed, storage, ai>>

NextMig ==
    \/ MigrateStart
    \/ \E executes \in BOOLEAN, kept \in BOOLEAN : MigrateStep(executes, kept)

SpecMig == InitMig /\ [][NextMig]_vars

\* C29: migrate() runs pending migrations in ascending version order, never
\* one whose version is recorded as applied, and once a migration has failed
\* it runs no further one: the call has raised.
C29_MigrateInOrderUntilFailure ==
    /\ [](\A i, j \in DOMAIN migrations.executed :
              i < j => StrLess(migrations.executed[i], migrations.executed[j]))
    /\ [][migrations'.executed # migrations.executed /\ migrations'.executed # <<>>
          => /\ ~migrations.failed
             /\ migrations'.executed[Len(migrations'.executed)] \notin migrations.applied]_vars
    /\ [](migrations.failed => migrations.pc = "raised")

\* A second migrate() call has run a migration after an earlier one applied
\* some, and a call has raised with migrations left that it did not run.
C29_Witness ==
    /\ migrations.calls = 2
    /\ migrations.applied # {}
    /\ migrations.pc = "raised"
    /\ migrations.pending # <<>>
    /\ Len(migrations.executed) >= 2

\* C30: after migrate() has returned, every migration it ran is recorded as
\* applied, and a migrate() that follows a returned one runs no migration.
C30_MigrateRecordsWhatItRan ==
    /\ migrations.pc = "returned"
           => \A i \in DOMAIN migrations.executed :
                  migrations.executed[i] \in migrations.applied
    /\ (migrations.previous = "returned" /\ migrations.pc # "idle")
           => migrations.executed = <<>>

=============================================================================
